---------------------------- MODULE Spec2Model ----------------------------
(***************************************************************************)
(* Key-value access layer of flask_vue: the single-node client             *)
(* (app/db/redis_client.py, class RedisClient) and the cluster client      *)
(* (app/db/redis_cluster_client.py, class RedisClusterClient), together    *)
(* with the store they talk to and the json codec they use.                *)
(*                                                                         *)
(* A text is a sequence of one-character strings, so that the codec can    *)
(* be modelled character by character.  A Python value is a record         *)
(*   [t, s, n, kids, mem]                                                  *)
(* t: the type tag; s: the characters of a str (or the lexeme of a float); *)
(* n: the number of an int or bool; kids: the items of a list, or the      *)
(* keys and values of a dict, alternating, in insertion order; mem: the    *)
(* members of a set.                                                       *)
(***************************************************************************)
EXTENDS Integers, Sequences, FiniteSets, TLC

(***************************************************************************)
(* Python values                                                           *)
(***************************************************************************)
PyNone == [t |-> "none", s |-> <<>>, n |-> 0, kids |-> <<>>, mem |-> {}]

PyBool(b) == [t |-> "bool", s |-> <<>>, n |-> IF b THEN 1 ELSE 0, kids |-> <<>>, mem |-> {}]

PyInt(i) == [t |-> "int", s |-> <<>>, n |-> i, kids |-> <<>>, mem |-> {}]

PyFloat(lexeme) == [t |-> "float", s |-> lexeme, n |-> 0, kids |-> <<>>, mem |-> {}]

PyStr(text) == [t |-> "str", s |-> text, n |-> 0, kids |-> <<>>, mem |-> {}]

PyList(items) == [t |-> "list", s |-> <<>>, n |-> 0, kids |-> items, mem |-> {}]

PyDict(keysAndValues) == [t |-> "dict", s |-> <<>>, n |-> 0, kids |-> keysAndValues, mem |-> {}]

PySet(members) == [t |-> "set", s |-> <<>>, n |-> 0, kids |-> <<>>, mem |-> members]

PyTrue == PyBool(TRUE)

PyFalse == PyBool(FALSE)

\* bool(x): the truth value of a Python value
Truthy(v) ==
    CASE v.t = "none" -> FALSE
      [] v.t \in {"bool", "int"} -> v.n /= 0
      [] v.t = "str" -> v.s /= <<>>
      [] v.t \in {"list", "dict"} -> v.kids /= <<>>
      [] v.t = "set" -> v.mem /= {}
      [] OTHER -> TRUE

\* isinstance(value, (dict, list))
IsDictOrList(v) == v.t \in {"dict", "list"}

\* The keys of a dict, in insertion order, and the value under a key.
DictKeys(d) == [i \in 1..(Len(d.kids) \div 2) |-> d.kids[2 * i - 1]]

DictVals(d) == [i \in 1..(Len(d.kids) \div 2) |-> d.kids[2 * i]]

\* d[k] = v on a dict's keys and values: a present key keeps its place.
DictPut(kids, k, v) ==
    IF \E i \in 1..(Len(kids) \div 2) : kids[2 * i - 1] = k
    THEN [j \in 1..Len(kids) |->
            IF j % 2 = 0 /\ kids[j - 1] = k THEN v ELSE kids[j]]
    ELSE kids \o <<k, v>>

\* Python's ==, on the values of this model: lists compare item by item,
\* dicts as mappings (the order of insertion does not matter), bool is an int.
RECURSIVE PyEq(_, _)
PyEq(a, b) ==
    CASE a.t = "list" /\ b.t = "list" ->
            /\ Len(a.kids) = Len(b.kids)
            /\ \A i \in 1..Len(a.kids) : PyEq(a.kids[i], b.kids[i])
      [] a.t = "dict" /\ b.t = "dict" ->
            /\ Len(a.kids) = Len(b.kids)
            /\ \A i \in 1..(Len(a.kids) \div 2) :
                 \E j \in 1..(Len(b.kids) \div 2) :
                    /\ PyEq(a.kids[2 * i - 1], b.kids[2 * j - 1])
                    /\ PyEq(a.kids[2 * i], b.kids[2 * j])
      [] a.t \in {"int", "bool"} /\ b.t \in {"int", "bool"} -> a.n = b.n
      [] OTHER -> a = b

(***************************************************************************)
(* json.dumps, with Python's defaults: separators ", " and ": ", dict keys *)
(* that are int, bool or None written as text, a TypeError for anything    *)
(* else that JSON cannot hold.  The result is [ok, text]; ok = FALSE is    *)
(* the TypeError.                                                          *)
(***************************************************************************)
Flatten(seqs) ==
    LET F[i \in 0..Len(seqs)] == IF i = 0 THEN <<>> ELSE F[i - 1] \o seqs[i]
    IN  F[Len(seqs)]

\* ", ".join(parts)
JoinComma(parts) ==
    Flatten([i \in 1..Len(parts) |->
               IF i = 1 THEN parts[i] ELSE <<",", " ">> \o parts[i]])

DigitChar(d) ==
    CASE d = 0 -> "0" [] d = 1 -> "1" [] d = 2 -> "2" [] d = 3 -> "3"
      [] d = 4 -> "4" [] d = 5 -> "5" [] d = 6 -> "6" [] d = 7 -> "7"
      [] d = 8 -> "8" [] d = 9 -> "9"

RECURSIVE NatText(_)
NatText(i) == IF i < 10 THEN <<DigitChar(i)>>
              ELSE NatText(i \div 10) \o <<DigitChar(i % 10)>>

\* str(i) of an int
IntText(i) == IF i < 0 THEN <<"-">> \o NatText(-i) ELSE NatText(i)

\* One character of a str inside a JSON string.
EscapeChar(c) ==
    CASE c = "\"" -> <<"\\", "\"">>
      [] c = "\\" -> <<"\\", "\\">>
      [] c = "\n" -> <<"\\", "n">>
      [] c = "\t" -> <<"\\", "t">>
      [] c = "\r" -> <<"\\", "r">>
      [] c = "\f" -> <<"\\", "f">>
      [] OTHER -> <<c>>

Quoted(text) ==
    <<"\"">> \o Flatten([i \in 1..Len(text) |-> EscapeChar(text[i])]) \o <<"\"">>

LitNull == <<"n", "u", "l", "l">>

LitTrue == <<"t", "r", "u", "e">>

LitFalse == <<"f", "a", "l", "s", "e">>

\* The text a dict key is written as; ok = FALSE: keys must be str, int,
\* float, bool or None.
DumpsKey(k) ==
    CASE k.t = "str" -> [ok |-> TRUE, text |-> Quoted(k.s)]
      [] k.t = "int" -> [ok |-> TRUE, text |-> Quoted(IntText(k.n))]
      [] k.t = "bool" -> [ok |-> TRUE,
                          text |-> Quoted(IF k.n = 1 THEN LitTrue ELSE LitFalse)]
      [] k.t = "none" -> [ok |-> TRUE, text |-> Quoted(LitNull)]
      [] k.t = "float" -> [ok |-> TRUE, text |-> Quoted(k.s)]
      [] OTHER -> [ok |-> FALSE, text |-> <<>>]

RECURSIVE json_dumps(_)
json_dumps(v) ==
    CASE v.t = "none" -> [ok |-> TRUE, text |-> LitNull]
      [] v.t = "bool" -> [ok |-> TRUE, text |-> IF v.n = 1 THEN LitTrue ELSE LitFalse]
      [] v.t = "int" -> [ok |-> TRUE, text |-> IntText(v.n)]
      [] v.t = "float" -> [ok |-> TRUE, text |-> v.s]
      [] v.t = "str" -> [ok |-> TRUE, text |-> Quoted(v.s)]
      [] v.t = "list" ->
            LET parts == [i \in 1..Len(v.kids) |-> json_dumps(v.kids[i])]
            IN  IF \A i \in 1..Len(parts) : parts[i].ok
                THEN [ok |-> TRUE,
                      text |-> <<"[">>
                               \o JoinComma([i \in 1..Len(parts) |-> parts[i].text])
                               \o <<"]">>]
                ELSE [ok |-> FALSE, text |-> <<>>]
      [] v.t = "dict" ->
            LET ks == DictKeys(v)
                vs == DictVals(v)
                kp == [i \in 1..Len(ks) |-> DumpsKey(ks[i])]
                vp == [i \in 1..Len(vs) |-> json_dumps(vs[i])]
            IN  IF \A i \in 1..Len(ks) : kp[i].ok /\ vp[i].ok
                THEN [ok |-> TRUE,
                      text |-> <<"{">>
                               \o JoinComma([i \in 1..Len(ks) |->
                                               kp[i].text \o <<":", " ">> \o vp[i].text])
                               \o <<"}">>]
                ELSE [ok |-> FALSE, text |-> <<>>]
      [] OTHER -> [ok |-> FALSE, text |-> <<>>]

(***************************************************************************)
(* json.loads, character by character.  Every parser takes the text and    *)
(* the index of the next character and gives [ok, v, i]: whether it        *)
(* matched, the value, and the index after it.  ok = FALSE is the          *)
(* JSONDecodeError.                                                        *)
(***************************************************************************)
NoParse == [ok |-> FALSE, v |-> PyNone, i |-> 0]

Parsed(v, i) == [ok |-> TRUE, v |-> v, i |-> i]

Digits == {"0", "1", "2", "3", "4", "5", "6", "7", "8", "9"}

DigitVal(c) ==
    CASE c = "0" -> 0 [] c = "1" -> 1 [] c = "2" -> 2 [] c = "3" -> 3
      [] c = "4" -> 4 [] c = "5" -> 5 [] c = "6" -> 6 [] c = "7" -> 7
      [] c = "8" -> 8 [] c = "9" -> 9

\* text[i..] starts with lit
StartsWithAt(text, i, lit) ==
    /\ i + Len(lit) - 1 <= Len(text)
    /\ \A j \in 1..Len(lit) : text[i + j - 1] = lit[j]

\* str.startswith(c)
startswith(text, c) == Len(text) >= 1 /\ text[1] = c

\* The index of the first character at or after i that is not white space.
RECURSIVE SkipWs(_, _)
SkipWs(text, i) ==
    IF i <= Len(text) /\ text[i] \in {" ", "\n", "\t", "\r"}
    THEN SkipWs(text, i + 1)
    ELSE i

\* The index after the digits that start at i.
RECURSIVE SkipDigits(_, _)
SkipDigits(text, i) ==
    IF i <= Len(text) /\ text[i] \in Digits THEN SkipDigits(text, i + 1) ELSE i

RECURSIVE DigitsVal(_, _, _)
DigitsVal(text, i, j) ==
    IF j < i THEN 0 ELSE 10 * DigitsVal(text, i, j - 1) + DigitVal(text[j])

\* (-?(?:0|[1-9]\d*))(\.\d+)?([eE][-+]?\d+)? matched at i
ParseNumber(text, i) ==
    LET neg == i <= Len(text) /\ text[i] = "-"
        d0 == IF neg THEN i + 1 ELSE i
        d1 == IF d0 <= Len(text) /\ text[d0] = "0" THEN d0 + 1
              ELSE SkipDigits(text, d0)
        f1 == IF d1 < Len(text) /\ text[d1] = "." /\ text[d1 + 1] \in Digits
              THEN SkipDigits(text, d1 + 1) ELSE d1
        e0 == IF f1 <= Len(text) /\ text[f1] \in {"e", "E"}
              THEN (IF f1 < Len(text) /\ text[f1 + 1] \in {"-", "+"}
                    THEN f1 + 2 ELSE f1 + 1)
              ELSE f1
        e1 == IF e0 > f1 /\ e0 <= Len(text) /\ text[e0] \in Digits
              THEN SkipDigits(text, e0) ELSE f1
        mag == DigitsVal(text, d0, d1 - 1)
    IN  IF d1 = d0 THEN NoParse
        ELSE IF e1 > d1 THEN Parsed(PyFloat(SubSeq(text, i, e1 - 1)), e1)
        ELSE Parsed(PyInt(IF neg THEN -mag ELSE mag), d1)

\* The character a backslash escape stands for ("" when it is none).
Unescape(c) ==
    CASE c = "\"" -> "\""
      [] c = "\\" -> "\\"
      [] c = "/" -> "/"
      [] c = "n" -> "\n"
      [] c = "t" -> "\t"
      [] c = "r" -> "\r"
      [] c = "f" -> "\f"
      [] OTHER -> ""

\* The rest of a string whose opening quote came before i.
RECURSIVE ParseString(_, _, _)
ParseString(text, i, acc) ==
    IF i > Len(text) THEN NoParse
    ELSE IF text[i] = "\"" THEN Parsed(PyStr(acc), i + 1)
    ELSE IF text[i] = "\\"
         THEN IF i + 1 > Len(text) \/ Unescape(text[i + 1]) = "" THEN NoParse
              ELSE ParseString(text, i + 2, Append(acc, Unescape(text[i + 1])))
    ELSE IF text[i] \in {"\n", "\t", "\r", "\f"} THEN NoParse
    ELSE ParseString(text, i + 1, Append(acc, text[i]))

RECURSIVE ParseValue(_, _), ParseArray(_, _, _), ParseObject(_, _, _)
\* The value that starts at i (no white space before it).
ParseValue(text, i) ==
    IF i > Len(text) THEN NoParse
    ELSE CASE text[i] = "\"" -> ParseString(text, i + 1, <<>>)
           [] text[i] = "{" -> ParseObject(text, SkipWs(text, i + 1), <<>>)
           [] text[i] = "[" -> ParseArray(text, SkipWs(text, i + 1), <<>>)
           [] StartsWithAt(text, i, LitNull) -> Parsed(PyNone, i + 4)
           [] StartsWithAt(text, i, LitTrue) -> Parsed(PyTrue, i + 4)
           [] StartsWithAt(text, i, LitFalse) -> Parsed(PyFalse, i + 5)
           [] StartsWithAt(text, i, <<"N", "a", "N">>) ->
                 Parsed(PyFloat(<<"N", "a", "N">>), i + 3)
           [] OTHER -> ParseNumber(text, i)

\* The items of an array after "[" and white space; acc: the items so far.
ParseArray(text, i, acc) ==
    IF i <= Len(text) /\ text[i] = "]" /\ acc = <<>> THEN Parsed(PyList(<<>>), i + 1)
    ELSE LET item == ParseValue(text, i)
             j == SkipWs(text, item.i)
         IN  IF ~item.ok \/ j > Len(text) THEN NoParse
             ELSE IF text[j] = "]" THEN Parsed(PyList(Append(acc, item.v)), j + 1)
             ELSE IF text[j] = ","
                  THEN ParseArray(text, SkipWs(text, j + 1), Append(acc, item.v))
             ELSE NoParse

\* The pairs of an object after "{" and white space; acc: the keys and
\* values so far.  A key that comes twice keeps its last value.
ParseObject(text, i, acc) ==
    IF i <= Len(text) /\ text[i] = "}" /\ acc = <<>> THEN Parsed(PyDict(<<>>), i + 1)
    ELSE IF i > Len(text) \/ text[i] /= "\"" THEN NoParse
    ELSE LET key == ParseString(text, i + 1, <<>>)
             c == SkipWs(text, key.i)
             val == ParseValue(text, SkipWs(text, c + 1))
             j == SkipWs(text, val.i)
         IN  IF ~key.ok \/ c > Len(text) \/ text[c] /= ":" THEN NoParse
             ELSE IF ~val.ok \/ j > Len(text) THEN NoParse
             ELSE IF text[j] = "}"
                  THEN Parsed(PyDict(DictPut(acc, key.v, val.v)), j + 1)
             ELSE IF text[j] = ","
                  THEN ParseObject(text, SkipWs(text, j + 1),
                                   DictPut(acc, key.v, val.v))
             ELSE NoParse

\* json.loads(text): [ok, v]; white space may surround the value, and
\* anything else after it is "Extra data".
json_loads(text) ==
    LET r == ParseValue(text, SkipWs(text, 1))
    IN  IF r.ok /\ SkipWs(text, r.i) = Len(text) + 1
        THEN [ok |-> TRUE, v |-> r.v]
        ELSE [ok |-> FALSE, v |-> PyNone]

(***************************************************************************)
(* The state: one client instance, the store it talks to, and what the     *)
(* latest operation did.                                                   *)
(***************************************************************************)
VARIABLES
    kind,          \* "single": a RedisClient; "cluster": a RedisClusterClient
    _client,       \* self._client: 0 is None, otherwise the handle
    constructed,   \* how many handles were constructed (they are 1..constructed)
    shutdown,      \* the handles whose close() was requested
    db,            \* the store's keyspace: key -> entry
    ttl,           \* the store's expiries: key -> seconds left, 0 is none
    subs,          \* channel -> the subscriptions the store holds on it
    slots,         \* the store's slot table: a sequence of <<start, end, nodes>>
    pc,            \* concurrent callers: where each one is in its operation
    seen,          \* concurrent callers: the handle each one obtained
    overlapped,    \* two callers were inside an operation at the same time
    written,       \* key -> the value the latest set that wrote the key was given
    slotSeen,      \* key -> the slot an earlier get_key_slot returned for the key
                   \*        since the slot table last changed, or -1
    last           \* the latest operation: its arguments, store calls and outcome

vars == <<kind, _client, constructed, shutdown, db, ttl, subs, slots, pc, seen,
          overlapped, written, slotSeen, last>>

\* Bounds of the model
MaxHandles == 2

MaxExpire == 2

MaxListLen == 3

MaxSubs == 1

MaxRanges == 2

MaxName == 2

\* The scaled-down number of hash slots of the cluster (16384 in the store).
NumSlots == 4

Keys == {"k1", "k2"}

Channels == {"ch"}

Callers == {"c1", "c2"}

\* An entry of the keyspace: Redis keeps one value of one type under a key.
NoEntry == [type |-> "none", str |-> <<>>, list |-> <<>>, set |-> {}, hash |-> <<>>]

StrEntry(text) == [NoEntry EXCEPT !.type = "string", !.str = text]

ListEntry(items) == [NoEntry EXCEPT !.type = "list", !.list = items]

SetEntry(members) == [NoEntry EXCEPT !.type = "set", !.set = members]

\* fields and values alternate, in insertion order
HashEntry(fieldsAndValues) == [NoEntry EXCEPT !.type = "hash", !.hash = fieldsAndValues]

\* No value was written under the key by a set of this client.
NotWritten == [t |-> "unwritten", s |-> <<>>, n |-> 0, kids |-> <<>>, mem |-> {}]

(***************************************************************************)
(* The store.  A call is [cmd, keys, args, flag, n, m, h, failed, reply,   *)
(* err]: the command, its keys, its text payloads, its option (nx, xx),    *)
(* its numbers, the handle it went through, whether the transport failed,  *)
(* and, once it was issued, the reply and whether the handle raised.  The  *)
(* store's part of the world is w = [db, ttl, subs, slots]; executing a    *)
(* call gives [w, reply, err]: err is the exception the handle raises (a   *)
(* transport failure, or the store refusing the command).                  *)
(***************************************************************************)
Call(cmd, keys, args, flag, n, m, h, failed) ==
    [cmd |-> cmd, keys |-> keys, args |-> args, flag |-> flag, n |-> n, m |-> m,
     h |-> h, failed |-> failed, reply |-> PyNone, err |-> FALSE]

Reply(w, reply) == [w |-> w, reply |-> reply, err |-> FALSE]

Refused(w) == [w |-> w, reply |-> PyNone, err |-> TRUE]

Present(w, k) == w.db[k].type /= "none"

Range(seq) == {seq[i] : i \in 1..Len(seq)}

\* How many of the keys (counted as often as they are named) are present.
RECURSIVE CountPresent(_, _)
CountPresent(w, keys) ==
    IF keys = <<>> THEN 0
    ELSE (IF Present(w, Head(keys)) THEN 1 ELSE 0) + CountPresent(w, Tail(keys))

\* SET key value [NX|XX]: the write is skipped when the condition fails; a
\* write replaces whatever the key held and discards its expiry.
StoreSet(w, k, text, flag) ==
    IF (flag = "nx" /\ Present(w, k)) \/ (flag = "xx" /\ ~Present(w, k))
    THEN Reply(w, PyNone)
    ELSE Reply([w EXCEPT !.db[k] = StrEntry(text), !.ttl[k] = 0], PyTrue)

StoreGet(w, k) ==
    CASE w.db[k].type = "none" -> Reply(w, PyNone)
      [] w.db[k].type = "string" -> Reply(w, PyStr(w.db[k].str))
      [] OTHER -> Refused(w)

StoreExpire(w, k, seconds) ==
    IF Present(w, k) THEN Reply([w EXCEPT !.ttl[k] = seconds], PyTrue)
    ELSE Reply(w, PyFalse)

StoreDelete(w, keys) ==
    IF keys = <<>> THEN Refused(w)
    ELSE Reply([w EXCEPT !.db = [k \in Keys |-> IF k \in Range(keys) THEN NoEntry
                                                 ELSE w.db[k]],
                         !.ttl = [k \in Keys |-> IF k \in Range(keys) THEN 0
                                                  ELSE w.ttl[k]]],
               PyInt(Cardinality({k \in Range(keys) : Present(w, k)})))

StoreExists(w, keys) ==
    IF keys = <<>> THEN Refused(w) ELSE Reply(w, PyInt(CountPresent(w, keys)))

\* HSET name field value ...: args are fields and values, alternating
RECURSIVE HashPutAll(_, _)
HashPutAll(hash, args) ==
    IF Len(args) < 2 THEN hash
    ELSE HashPutAll(DictPut(hash, args[1], args[2]), SubSeq(args, 3, Len(args)))

StoreHmset(w, k, args) ==
    IF args = <<>> \/ w.db[k].type \notin {"none", "hash"} THEN Refused(w)
    ELSE Reply([w EXCEPT !.db[k] = HashEntry(HashPutAll(w.db[k].hash, args))], PyTrue)

HashDict(hash) == PyDict([i \in 1..Len(hash) |-> PyStr(hash[i])])

StoreHgetall(w, k) ==
    IF w.db[k].type \notin {"none", "hash"} THEN Refused(w)
    ELSE Reply(w, HashDict(w.db[k].hash))

HashHas(hash, f) == \E i \in 1..(Len(hash) \div 2) : hash[2 * i - 1] = f

HashGet(hash, f) == hash[2 * (CHOOSE i \in 1..(Len(hash) \div 2) : hash[2 * i - 1] = f)]

StoreHget(w, k, f) ==
    IF w.db[k].type \notin {"none", "hash"} THEN Refused(w)
    ELSE IF HashHas(w.db[k].hash, f) THEN Reply(w, PyStr(HashGet(w.db[k].hash, f)))
    ELSE Reply(w, PyNone)

\* The hash without the named fields.
RECURSIVE HashWithout(_, _)
HashWithout(hash, fields) ==
    IF hash = <<>> THEN <<>>
    ELSE (IF hash[1] \in fields THEN <<>> ELSE <<hash[1], hash[2]>>)
         \o HashWithout(SubSeq(hash, 3, Len(hash)), fields)

\* HDEL: a hash left without fields is removed from the keyspace.
StoreHdel(w, k, fields) ==
    IF fields = <<>> \/ w.db[k].type \notin {"none", "hash"} THEN Refused(w)
    ELSE LET rest == HashWithout(w.db[k].hash, Range(fields))
             gone == (Len(w.db[k].hash) - Len(rest)) \div 2
         IN  IF rest = <<>>
             THEN Reply([w EXCEPT !.db[k] = NoEntry, !.ttl[k] = 0], PyInt(gone))
             ELSE Reply([w EXCEPT !.db[k] = HashEntry(rest)], PyInt(gone))

StoreRpush(w, k, values) ==
    IF values = <<>> \/ w.db[k].type \notin {"none", "list"} THEN Refused(w)
    ELSE Reply([w EXCEPT !.db[k] = ListEntry(w.db[k].list \o values)],
               PyInt(Len(w.db[k].list) + Len(values)))

\* LRANGE: both indexes are inclusive, a negative one counts from the tail.
StoreLrange(w, k, start, stop) ==
    IF w.db[k].type \notin {"none", "list"} THEN Refused(w)
    ELSE LET items == w.db[k].list
             n == Len(items)
             s0 == IF start < 0 THEN start + n ELSE start
             s1 == IF s0 < 0 THEN 0 ELSE s0
             e0 == IF stop < 0 THEN stop + n ELSE stop
             e1 == IF e0 >= n THEN n - 1 ELSE e0
         IN  Reply(w, PyList([i \in 1..(IF s1 > e1 THEN 0 ELSE e1 - s1 + 1) |->
                                PyStr(items[s1 + i])]))

StoreSadd(w, k, values) ==
    IF values = <<>> \/ w.db[k].type \notin {"none", "set"} THEN Refused(w)
    ELSE Reply([w EXCEPT !.db[k] = SetEntry(w.db[k].set \cup Range(values))],
               PyInt(Cardinality(Range(values) \ w.db[k].set)))

StoreSmembers(w, k) ==
    IF w.db[k].type \notin {"none", "set"} THEN Refused(w)
    ELSE Reply(w, PySet({PyStr(m) : m \in w.db[k].set}))

\* PUBLISH: the number of subscriptions that received the message
StorePublish(w, ch) == Reply(w, PyInt(w.subs[ch]))

\* SUBSCRIBE on a new pubsub connection of the handle
StoreSubscribe(w, ch) == Reply([w EXCEPT !.subs[ch] = w.subs[ch] + 1], PyNone)

\* A node descriptor, as the store reports it.
Node(name) == PyDict(<<PyStr(<<"i", "d">>), PyStr(<<name>>)>>)

\* The empty descriptor {}
NoNode == PyDict(<<>>)

\* CLUSTER SLOTS: the triples (start, end, nodes), in the store's order
StoreClusterSlots(w) ==
    Reply(w, PyList([i \in 1..Len(w.slots) |->
                       PyList(<<PyInt(w.slots[i].start), PyInt(w.slots[i].end),
                                PyList([j \in 1..Len(w.slots[i].nodes) |->
                                          Node(w.slots[i].nodes[j])])>>)]))

\* CLUSTER NODES: every node of the table, range by range
StoreClusterNodes(w) ==
    Reply(w, PyList(Flatten([i \in 1..Len(w.slots) |->
                               [j \in 1..Len(w.slots[i].nodes) |->
                                  Node(w.slots[i].nodes[j])]])))

\* The store's hash of a key (CRC16 in the store), and the key's slot.
KeyHash(k) == CASE k = "k1" -> 5 [] k = "k2" -> 10 [] OTHER -> 0

\* A slot that moves with the number of keys the store holds.
StoreKeyslotByLoad(w, k) ==
    Reply(w, PyInt((KeyHash(k) + Cardinality({x \in Keys : w.db[x].type /= "none"}))
                     % NumSlots))

StoreKeyslot(w, k) == Reply(w, PyInt(KeyHash(k) % NumSlots))

(***************************************************************************)
(* The connection.  A run is the state of one operation's try block:       *)
(* [cl, made, w, calls, exc, cfailed, reply]: self._client, the handles    *)
(* constructed so far, the store, the calls issued, whether an exception   *)
(* is propagating, whether it came from constructing the handle, and the   *)
(* latest reply.                                                           *)
(***************************************************************************)
Start(cl, made, w) ==
    [cl |-> cl, made |-> made, w |-> w, calls |-> <<>>, exc |-> FALSE,
     cfailed |-> FALSE, reply |-> PyNone]

\* An exception raised by the client's own code (a codec error, a bad argument).
Raise(r) == [r EXCEPT !.exc = TRUE]

\* A property that constructs a handle at every access.
clientEager(r, cfail) ==
    IF cfail THEN [r EXCEPT !.exc = TRUE, !.cfailed = TRUE]
    ELSE [r EXCEPT !.cl = r.made + 1, !.made = r.made + 1]

\* The client property: the handle is constructed when there is none, and a
\* failure to construct it is raised.  cfail: the construction would fail.
client(r, cfail) ==
    IF r.cl = 0
    THEN IF cfail THEN [r EXCEPT !.exc = TRUE, !.cfailed = TRUE]
         ELSE [r EXCEPT !.cl = r.made + 1, !.made = r.made + 1]
    ELSE r

\* The call c1 was issued and the handle gave x = [w, reply, err].
Issued(r1, c1, x) ==
    [r1 EXCEPT !.w = x.w,
               !.calls = Append(r1.calls, [c1 EXCEPT !.reply = x.reply, !.err = x.err]),
               !.exc = x.err, !.reply = x.reply]

\* The call c through the handle of r1, the run after the client property.
\* argsOk = FALSE: the handle refuses the arguments (redis-py's DataError)
\* before it sends anything.  x is what the store does with the call when
\* the transport does not fail.
Send(r1, c, argsOk, x) ==
    IF r1.exc THEN r1
    ELSE IF ~argsOk THEN Raise(r1)
    ELSE IF c.failed THEN Issued(r1, [c EXCEPT !.h = r1.cl], Refused(r1.w))
    ELSE Issued(r1, [c EXCEPT !.h = r1.cl], x)

\* self.client.<cmd>(...): the property, then the call through the handle.
\* Nothing happens when an exception is already propagating.
ViaArgs(r, cfail, c, argsOk, x) ==
    IF r.exc THEN r ELSE Send(client(r, cfail), c, argsOk, x)

Via(r, cfail, c, x) == ViaArgs(r, cfail, c, TRUE, x)

\* The outcome of an operation: what it returned or that it raised.
Outcome(r, raised, result) ==
    [cl |-> r.cl, made |-> r.made, w |-> r.w, calls |-> r.calls,
     cfailed |-> r.cfailed, raised |-> raised, result |-> result]

\* A try block without its except clause: the exception leaves the operation.
OrDefaultPropagating(r, result, default) == Outcome(r, r.exc, result)

\* try: ... return result / except Exception as e: log; return default
OrDefault(r, result, default) == Outcome(r, FALSE, IF r.exc THEN default ELSE result)

\* return self.client.<cmd>(...) in such a try block
ReturnReply(r1, default) == OrDefault(r1, r1.reply, default)

\* return bool(self.client.<cmd>(...)) in such a try block
ReturnBool(r1) == OrDefault(r1, PyBool(Truthy(r1.reply)), PyFalse)

\* The run that goes on after an inner operation returned.
Resume(out) ==
    [cl |-> out.cl, made |-> out.made, w |-> out.w, calls |-> out.calls,
     exc |-> FALSE, cfailed |-> out.cfailed, reply |-> PyNone]

\* The text redis-py sends for a value that is not a dict or a list; ok =
\* FALSE is its DataError (None, bool and other objects are refused).
WireText(v) ==
    CASE v.t = "str" -> [ok |-> TRUE, text |-> v.s]
      [] v.t = "int" -> [ok |-> TRUE, text |-> IntText(v.n)]
      [] v.t = "float" -> [ok |-> TRUE, text |-> v.s]
      [] OTHER -> [ok |-> FALSE, text |-> <<>>]

\* The texts of the values an rpush, sadd or hmset sends, and whether the
\* handle accepts them all.
WireTexts(values) == [i \in 1..Len(values) |-> WireText(values[i]).text]

WireOk(values) == \A i \in 1..Len(values) : WireText(values[i]).ok

\* json.dumps(v) if isinstance(v, (dict, list)) else v; ok = FALSE is the
\* TypeError of json.dumps.
DumpedText(v, d) == [ok |-> d.ok, v |-> PyStr(d.text)]

Dumped(v) == IF IsDictOrList(v) THEN DumpedText(v, json_dumps(v)) ELSE [ok |-> TRUE, v |-> v]

\* [json.dumps(v) if isinstance(v, (dict, list)) else v for v in values]:
\* whether json.dumps accepted every value, and the values after it
DumpedOk(values) == \A i \in 1..Len(values) : Dumped(values[i]).ok

DumpedAll(values) == [i \in 1..Len(values) |-> Dumped(values[i]).v]

\* return self.client.<cmd>(name, *values) after the values vs were dumped:
\* c is the call, x what the store does with it
ReturnSent(r, env, dumpedOk, vs, c, x) ==
    ReturnReply(ViaArgs(IF dumpedOk THEN r ELSE Raise(r), env.cfail,
                        [c EXCEPT !.args = WireTexts(vs)], WireOk(vs), x),
                PyInt(0))

\* A decoder that gives None for a text it cannot decode.
LoadsOrNone(value, p) == IF p.ok THEN p.v ELSE PyNone

\* try: return json.loads(value) / except json.JSONDecodeError: return value
LoadsOrRaw(value, p) == IF p.ok THEN p.v ELSE value

\* A get that returns the stored text as it is.
ReturnRaw(r1) == OrDefault(r1, r1.reply, PyNone)

\* get after its store call: if value is None: return None; else
\* json.loads(value), or value itself
ReturnDecoded(r1) ==
    OrDefault(r1,
              IF r1.reply = PyNone THEN PyNone
              ELSE LoadsOrRaw(r1.reply, json_loads(r1.reply.s)),
              PyNone)

\* json.loads(v) if v.startswith('{') or v.startswith('[') else v, of one
\* element of a reply; ok = FALSE is the JSONDecodeError.
DecodeElement(v) ==
    IF startswith(v.s, "{") \/ startswith(v.s, "[")
    THEN json_loads(v.s)
    ELSE [ok |-> TRUE, v |-> v]

\* [json.loads(v) if v.startswith('{') or v.startswith('[') else v
\*  for v in values]: one element that does not decode raises
ListComprehension(r1, ds) ==
    OrDefault(IF \A i \in 1..Len(ds) : ds[i].ok THEN r1 ELSE Raise(r1),
              PyList([i \in 1..Len(ds) |-> ds[i].v]),
              PyList(<<>>))

\* get_list after its store call
ReturnList(r1) ==
    ListComprehension(r1, [i \in 1..Len(r1.reply.kids) |-> DecodeElement(r1.reply.kids[i])])

\* {json.loads(v) if v.startswith('{') or v.startswith('[') else v
\*  for v in values}: an element that does not decode raises, and so does
\* one that decodes, to a list or a dict, which a set cannot hold
SetComprehension(r1, ds) ==
    OrDefault(IF \A d \in ds : d.ok /\ d.v.t \notin {"list", "dict", "set"}
              THEN r1 ELSE Raise(r1),
              PySet({d.v : d \in ds}),
              PySet({}))

\* get_set after its store call
ReturnSet(r1) == SetComprehension(r1, {DecodeElement(v) : v \in r1.reply.mem})

\* The subscription handle subscribe returns: a pubsub of the handle h
PubSub(h, channel) ==
    [t |-> "pubsub", s |-> <<channel>>, n |-> h, kids |-> <<>>, mem |-> {}]

\* pubsub = self.client.pubsub(); pubsub.subscribe(channel); return pubsub
ReturnPubSub(r1, channel) == OrDefault(r1, PubSub(r1.cl, channel), PyNone)

\* The transport failures of one operation: fail is the number of the store
\* call that fails (0: none), cfail whether constructing the handle fails.
Env == [cfail : BOOLEAN, fail : 0..2]

\* A set that passes no condition to the store.
SetFlagNone(nx, xx) == ""

\* if nx: ...set(key, value, nx=True) elif xx: ...set(key, value, xx=True)
\* else: ...set(key, value)
SetFlag(nx, xx) == IF nx THEN "nx" ELSE IF xx THEN "xx" ELSE ""

\* A set that issues no expire at all.
RedisClusterClient_set_expireNever(r1, key, expire, env) ==
    OrDefault(r1, PyBool(Truthy(r1.reply)), PyFalse)

\* An expire that does not look at the result of the write.
RedisClusterClient_set_expireAlways(r1, key, expire, env) ==
    OrDefault(IF expire /= 0
              THEN Via(r1, env.cfail,
                       Call("expire", <<key>>, <<>>, "", expire, 0, 0, env.fail = 2),
                       StoreExpire(r1.w, key, expire))
              ELSE r1,
              PyBool(Truthy(r1.reply)), PyFalse)

\* RedisClusterClient.set after its write:
\* if expire and result: self.client.expire(key, expire)
\* return bool(result)
RedisClusterClient_set_expire(r1, key, expire, env) ==
    OrDefault(IF expire /= 0 /\ Truthy(r1.reply)
              THEN Via(r1, env.cfail,
                       Call("expire", <<key>>, <<>>, "", expire, 0, 0, env.fail = 2),
                       StoreExpire(r1.w, key, expire))
              ELSE r1,
              PyBool(Truthy(r1.reply)), PyFalse)

\* A set of the single-node client that returns true after its write
\* whatever becomes of the expire call.
RedisClient_set_expireQuiet(r1, key, expire, env) ==
    Outcome(IF expire /= 0
            THEN Via(r1, env.cfail,
                     Call("expire", <<key>>, <<>>, "", expire, 0, 0, env.fail = 2),
                     StoreExpire(r1.w, key, expire))
            ELSE r1,
            FALSE, IF r1.exc THEN PyFalse ELSE PyTrue)

\* RedisClient.set after its write:
\* if expire: self.client.expire(key, expire)
\* return True
RedisClient_set_expire(r1, key, expire, env) ==
    OrDefault(IF expire /= 0
              THEN Via(r1, env.cfail,
                       Call("expire", <<key>>, <<>>, "", expire, 0, 0, env.fail = 2),
                       StoreExpire(r1.w, key, expire))
              ELSE r1,
              PyTrue, PyFalse)

\* The slot table of the store when the client is made: the ranges
\* (start, end, nodes)
SlotTable1 ==
    <<[start |-> 0, end |-> 1, nodes |-> <<"n1", "n2">>],
      [start |-> 2, end |-> NumSlots - 1, nodes |-> <<"n2">>]>>

\* A get_cluster_slots that is given the table of the time the client was
\* made.
get_cluster_slotsCached(r, env) ==
    ReturnReply(Via(r, env.cfail,
                    Call("cluster_slots", <<>>, <<>>, "", 0, 0, 0, env.fail = 1),
                    StoreClusterSlots([r.w EXCEPT !.slots = SlotTable1])),
                PyList(<<>>))

\* A get_key_slot whose failure value is the slot 0.
get_key_slotZero(r, key, env) ==
    ReturnReply(Via(r, env.cfail, Call("keyslot", <<key>>, <<>>, "", 0, 0, 0, env.fail = 1),
                    StoreKeyslot(r.w, key)),
                PyInt(0))

\* get_key_slot and get_cluster_slots as get_node_for_key calls them, on
\* the run r
get_key_slot(r, key, env) ==
    ReturnReply(Via(r, env.cfail, Call("keyslot", <<key>>, <<>>, "", 0, 0, 0, env.fail = 1),
                    StoreKeyslot(r.w, key)),
                PyInt(-1))

get_cluster_slots(r, env) ==
    ReturnReply(Via(r, env.cfail,
                    Call("cluster_slots", <<>>, <<>>, "", 0, 0, 0, env.fail = 1),
                    StoreClusterSlots(r.w)),
                PyList(<<>>))

\* A scan that passes over a range without nodes and goes on to the next
\* range that holds the slot.
ScanHitsSkipEmpty(table, hits) ==
    LET full == {i \in hits : table[i].kids[3].kids /= <<>>}
    IN  IF full = {} THEN NoNode
        ELSE table[CHOOSE i \in full : \A j \in full : i <= j].kids[3].kids[1]

\* for start, end, nodes in slots: if start <= slot <= end:
\*     return nodes[0] if nodes else {}
\* and {} after the loop; hits are the ranges that hold the slot
ScanHits(table, hits) ==
    IF hits = {} THEN NoNode
    ELSE LET nodes == table[CHOOSE i \in hits : \A j \in hits : i <= j].kids[3].kids
         IN  IF nodes = <<>> THEN NoNode ELSE nodes[1]

\* A scan that takes the end of a range as not in it.
ScanSlotsExclusive(table, slot) ==
    ScanHits(table, {i \in 1..Len(table) :
                       table[i].kids[1].n <= slot /\ slot < table[i].kids[2].n})

ScanSlots(table, slot) ==
    ScanHits(table, {i \in 1..Len(table) :
                       table[i].kids[1].n <= slot /\ slot <= table[i].kids[2].n})

\* get_node_for_key after get_cluster_slots returned o2
get_node_for_key_scan(o2, slot) ==
    OrDefault(Resume(o2), ScanSlots(o2.result.kids, slot), NoNode)

\* A lookup that scans the slot table whatever get_key_slot returned.
get_node_for_key_slotAlways(o1, env) ==
    get_node_for_key_scan(
        get_cluster_slots(Resume(o1),
                          [cfail |-> env.cfail, fail |-> IF env.fail = 2 THEN 1 ELSE 0]),
        o1.result.n)

\* get_node_for_key after get_key_slot returned o1: if slot == -1: return {}
get_node_for_key_slot(o1, env) ==
    IF o1.result.n = -1 THEN OrDefault(Resume(o1), NoNode, NoNode)
    ELSE get_node_for_key_scan(
             get_cluster_slots(Resume(o1),
                               [cfail |-> env.cfail, fail |-> IF env.fail = 2 THEN 1 ELSE 0]),
             o1.result.n)

\* A close that requests the shutdown and keeps the reference.
CloseKeeping(r) ==
    IF r.cl /= 0
    THEN Outcome([r EXCEPT !.calls = <<Call("close", <<>>, <<>>, "", 0, 0, r.cl, FALSE)>>],
                 FALSE, PyNone)
    ELSE Outcome(r, FALSE, PyNone)

\* if self._client: self._client.close(); self._client = None
\* The handle is not obtained through the client property, so none is made.
Closed(r) ==
    IF r.cl /= 0
    THEN Outcome([r EXCEPT !.cl = 0,
                           !.calls = <<Call("close", <<>>, <<>>, "", 0, 0, r.cl, FALSE)>>],
                 FALSE, PyNone)
    ELSE Outcome(r, FALSE, PyNone)

(***************************************************************************)
(* The state machine                                                       *)
(***************************************************************************)
\* The store as the operations see it, and the run an operation starts with.
W == [db |-> db, ttl |-> ttl, subs |-> subs, slots |-> slots]

Begin == Start(_client, constructed, W)

NoEnv == [cfail |-> FALSE, fail |-> 0]

\* The record of an operation that was called with these arguments.
Observed(op, keys, args, n, m, nx, xx, out) ==
    [op |-> op, keys |-> keys, args |-> args, n |-> n, m |-> m, nx |-> nx, xx |-> xx,
     calls |-> out.calls, raised |-> out.raised, result |-> out.result,
     cfailed |-> out.cfailed]

NoLast == Observed("none", <<>>, <<>>, 0, 0, FALSE, FALSE,
                   [calls |-> <<>>, raised |-> FALSE, result |-> PyNone, cfailed |-> FALSE])

\* A set of this operation wrote the key.
WroteKey(op, out) ==
    /\ op = "set"
    /\ out.calls /= <<>>
    /\ out.calls[1].cmd = "set"
    /\ out.calls[1].reply = PyTrue

\* What the get_key_slot calls before the next step returned: the slot the
\* latest operation returned, when it was a get_key_slot that did not fail.
Noted ==
    [k \in Keys |->
       IF last.op = "get_key_slot" /\ last.keys = <<k>> /\ last.result.n /= -1
       THEN last.result.n
       ELSE slotSeen[k]]

\* The operation op, called with these arguments, ran to its outcome out.
\* The guards keep the model within its bounds.
Perform(op, keys, args, n, m, nx, xx, out) ==
    /\ out.made <= MaxHandles
    /\ \A ch \in Channels : out.w.subs[ch] <= MaxSubs
    /\ \A k \in Keys : Len(out.w.db[k].list) <= MaxListLen
    /\ _client' = out.cl
    /\ constructed' = out.made
    /\ shutdown' = shutdown \cup {out.calls[i].h :
                                    i \in {j \in 1..Len(out.calls) : out.calls[j].cmd = "close"}}
    /\ db' = out.w.db
    /\ ttl' = out.w.ttl
    /\ subs' = out.w.subs
    /\ written' = [k \in Keys |->
                     IF WroteKey(op, out) /\ keys[1] = k THEN args[1]
                     ELSE IF out.w.db[k] = db[k] THEN written[k]
                     ELSE NotWritten]
    /\ slotSeen' = Noted
    /\ last' = Observed(op, keys, args, n, m, nx, xx, out)
    /\ UNCHANGED <<kind, slots, pc, seen, overlapped>>

\* The transport failures an operation with one store call, or with two,
\* can meet.  A failing construction is only drawn when there is no handle.
Env1 == {e \in Env : e.fail <= 1 /\ (e.cfail => _client = 0)}

Env2 == {e \in Env : e.cfail => _client = 0}

Conds == [nx : BOOLEAN, xx : BOOLEAN]

Expires == 0..MaxExpire

(***************************************************************************)
(* The operations.  Where the two classes have the same code, one action   *)
(* stands for the method of both; the others are guarded by the class.     *)
(***************************************************************************)
RedisClusterClient_set(keys, values, expires, conds, envs) ==
    /\ kind = "cluster"
    /\ \E key \in keys, value \in values, expire \in expires, c \in conds, env \in envs :
          Perform("set", <<key>>, <<value>>, expire, 0, c.nx, c.xx,
                  RedisClusterClient_set_expire(
                      ViaArgs(IF Dumped(value).ok THEN Begin ELSE Raise(Begin), env.cfail,
                              Call("set", <<key>>, WireTexts(<<Dumped(value).v>>),
                                   SetFlag(c.nx, c.xx), 0, 0, 0, env.fail = 1),
                              WireOk(<<Dumped(value).v>>),
                              StoreSet(W, key, WireText(Dumped(value).v).text,
                                       SetFlag(c.nx, c.xx))),
                      key, expire, env))

RedisClient_set(keys, values, expires, envs) ==
    /\ kind = "single"
    /\ \E key \in keys, value \in values, expire \in expires, env \in envs :
          Perform("set", <<key>>, <<value>>, expire, 0, FALSE, FALSE,
                  RedisClient_set_expire(
                      ViaArgs(IF Dumped(value).ok THEN Begin ELSE Raise(Begin), env.cfail,
                              Call("set", <<key>>, WireTexts(<<Dumped(value).v>>), "",
                                   0, 0, 0, env.fail = 1),
                              WireOk(<<Dumped(value).v>>),
                              StoreSet(W, key, WireText(Dumped(value).v).text, "")),
                      key, expire, env))

get(keys, envs) ==
    \E key \in keys, env \in envs :
        Perform("get", <<key>>, <<>>, 0, 0, FALSE, FALSE,
                ReturnDecoded(Via(Begin, env.cfail,
                                  Call("get", <<key>>, <<>>, "", 0, 0, 0, env.fail = 1),
                                  StoreGet(W, key))))

\* A delete that carries only the first of its keys.
RedisClusterClient_deleteFirst(keyLists, envs) ==
    /\ kind = "cluster"
    /\ \E ks \in keyLists, env \in envs :
          Perform("delete", ks, <<>>, 0, 0, FALSE, FALSE,
                  ReturnReply(Via(Begin, env.cfail,
                                  Call("delete", SubSeq(ks, 1, IF ks = <<>> THEN 0 ELSE 1),
                                       <<>>, "", 0, 0, 0, env.fail = 1),
                                  StoreDelete(W, SubSeq(ks, 1, IF ks = <<>> THEN 0 ELSE 1))),
                              PyInt(0)))

RedisClusterClient_delete(keyLists, envs) ==
    /\ kind = "cluster"
    /\ \E ks \in keyLists, env \in envs :
          Perform("delete", ks, <<>>, 0, 0, FALSE, FALSE,
                  ReturnReply(Via(Begin, env.cfail,
                                  Call("delete", ks, <<>>, "", 0, 0, 0, env.fail = 1),
                                  StoreDelete(W, ks)),
                              PyInt(0)))

RedisClient_delete(keys, envs) ==
    /\ kind = "single"
    /\ \E key \in keys, env \in envs :
          Perform("delete", <<key>>, <<>>, 0, 0, FALSE, FALSE,
                  ReturnBool(Via(Begin, env.cfail,
                                 Call("delete", <<key>>, <<>>, "", 0, 0, 0, env.fail = 1),
                                 StoreDelete(W, <<key>>))))

RedisClusterClient_exists(keyLists, envs) ==
    /\ kind = "cluster"
    /\ \E ks \in keyLists, env \in envs :
          Perform("exists", ks, <<>>, 0, 0, FALSE, FALSE,
                  ReturnReply(Via(Begin, env.cfail,
                                  Call("exists", ks, <<>>, "", 0, 0, 0, env.fail = 1),
                                  StoreExists(W, ks)),
                              PyInt(0)))

RedisClient_exists(keys, envs) ==
    /\ kind = "single"
    /\ \E key \in keys, env \in envs :
          Perform("exists", <<key>>, <<>>, 0, 0, FALSE, FALSE,
                  ReturnBool(Via(Begin, env.cfail,
                                 Call("exists", <<key>>, <<>>, "", 0, 0, 0, env.fail = 1),
                                 StoreExists(W, <<key>>))))

set_hash(keys, mappings, envs) ==
    \E name \in keys, mapping \in mappings, env \in envs :
        Perform("set_hash", <<name>>, <<mapping>>, 0, 0, FALSE, FALSE,
                ReturnBool(ViaArgs(Begin, env.cfail,
                                   Call("hmset", <<name>>, WireTexts(mapping.kids), "",
                                        0, 0, 0, env.fail = 1),
                                   mapping.kids /= <<>> /\ WireOk(mapping.kids),
                                   StoreHmset(W, name, WireTexts(mapping.kids)))))

get_hash(keys, envs) ==
    \E name \in keys, env \in envs :
        Perform("get_hash", <<name>>, <<>>, 0, 0, FALSE, FALSE,
                ReturnReply(Via(Begin, env.cfail,
                                Call("hgetall", <<name>>, <<>>, "", 0, 0, 0, env.fail = 1),
                                StoreHgetall(W, name)),
                            PyDict(<<>>)))

RedisClusterClient_get_hash_field(keys, fields, envs) ==
    /\ kind = "cluster"
    /\ \E name \in keys, field \in fields, env \in envs :
          Perform("get_hash_field", <<name>>, <<PyStr(field)>>, 0, 0, FALSE, FALSE,
                  ReturnReply(Via(Begin, env.cfail,
                                  Call("hget", <<name>>, <<field>>, "", 0, 0, 0,
                                       env.fail = 1),
                                  StoreHget(W, name, field)),
                              PyNone))

\* A delete_hash that returns whether a field was removed.
delete_hashBool(keys, fieldLists, envs) ==
    \E name \in keys, fields \in fieldLists, env \in envs :
        Perform("delete_hash", <<name>>, [i \in 1..Len(fields) |-> PyStr(fields[i])],
                0, 0, FALSE, FALSE,
                ReturnBool(Via(Begin, env.cfail,
                               Call("hdel", <<name>>, fields, "", 0, 0, 0, env.fail = 1),
                               StoreHdel(W, name, fields))))

delete_hash(keys, fieldLists, envs) ==
    \E name \in keys, fields \in fieldLists, env \in envs :
        Perform("delete_hash", <<name>>, [i \in 1..Len(fields) |-> PyStr(fields[i])],
                0, 0, FALSE, FALSE,
                ReturnReply(Via(Begin, env.cfail,
                                Call("hdel", <<name>>, fields, "", 0, 0, 0, env.fail = 1),
                                StoreHdel(W, name, fields)),
                            PyInt(0)))

push_list(keys, valueLists, envs) ==
    \E name \in keys, values \in valueLists, env \in envs :
        Perform("push_list", <<name>>, values, 0, 0, FALSE, FALSE,
                ReturnSent(Begin, env, DumpedOk(values), DumpedAll(values),
                           Call("rpush", <<name>>, <<>>, "", 0, 0, 0, env.fail = 1),
                           StoreRpush(W, name, WireTexts(DumpedAll(values)))))

\* A get_list that takes its end index as not in the range.
get_listExclusive(keys, bounds, envs) ==
    \E name \in keys, b \in bounds, env \in envs :
        Perform("get_list", <<name>>, <<>>, b[1], b[2], FALSE, FALSE,
                ReturnList(Via(Begin, env.cfail,
                               Call("lrange", <<name>>, <<>>, "", b[1], b[2] - 1, 0,
                                    env.fail = 1),
                               StoreLrange(W, name, b[1], b[2] - 1))))

get_list(keys, bounds, envs) ==
    \E name \in keys, b \in bounds, env \in envs :
        Perform("get_list", <<name>>, <<>>, b[1], b[2], FALSE, FALSE,
                ReturnList(Via(Begin, env.cfail,
                               Call("lrange", <<name>>, <<>>, "", b[1], b[2], 0,
                                    env.fail = 1),
                               StoreLrange(W, name, b[1], b[2]))))

add_to_set(keys, valueLists, envs) ==
    \E name \in keys, values \in valueLists, env \in envs :
        Perform("add_to_set", <<name>>, values, 0, 0, FALSE, FALSE,
                ReturnSent(Begin, env, DumpedOk(values), DumpedAll(values),
                           Call("sadd", <<name>>, <<>>, "", 0, 0, 0, env.fail = 1),
                           StoreSadd(W, name, WireTexts(DumpedAll(values)))))

get_set(keys, envs) ==
    \E name \in keys, env \in envs :
        Perform("get_set", <<name>>, <<>>, 0, 0, FALSE, FALSE,
                ReturnSet(Via(Begin, env.cfail,
                              Call("smembers", <<name>>, <<>>, "", 0, 0, 0, env.fail = 1),
                              StoreSmembers(W, name))))

publish(messages, envs) ==
    \E channel \in Channels, message \in messages, env \in envs :
        Perform("publish", <<channel>>, <<message>>, 0, 0, FALSE, FALSE,
                ReturnSent(Begin, env, DumpedOk(<<message>>), DumpedAll(<<message>>),
                           Call("publish", <<channel>>, <<>>, "", 0, 0, 0, env.fail = 1),
                           StorePublish(W, channel)))

subscribe(envs) ==
    \E channel \in Channels, env \in envs :
        Perform("subscribe", <<channel>>, <<>>, 0, 0, FALSE, FALSE,
                ReturnPubSub(Via(Begin, env.cfail,
                                 Call("subscribe", <<channel>>, <<>>, "", 0, 0, 0,
                                      env.fail = 1),
                                 StoreSubscribe(W, channel)),
                             channel))

RedisClusterClient_get_cluster_nodes(envs) ==
    /\ kind = "cluster"
    /\ \E env \in envs :
          Perform("get_cluster_nodes", <<>>, <<>>, 0, 0, FALSE, FALSE,
                  ReturnReply(Via(Begin, env.cfail,
                                  Call("cluster_nodes", <<>>, <<>>, "", 0, 0, 0,
                                       env.fail = 1),
                                  StoreClusterNodes(W)),
                              PyList(<<>>)))

RedisClusterClient_get_cluster_slots(envs) ==
    /\ kind = "cluster"
    /\ \E env \in envs :
          Perform("get_cluster_slots", <<>>, <<>>, 0, 0, FALSE, FALSE,
                  get_cluster_slots(Begin, env))

RedisClusterClient_get_key_slot(keys, envs) ==
    /\ kind = "cluster"
    /\ \E key \in keys, env \in envs :
          Perform("get_key_slot", <<key>>, <<>>, 0, 0, FALSE, FALSE,
                  get_key_slot(Begin, key, env))

RedisClusterClient_get_node_for_key(keys, envs) ==
    /\ kind = "cluster"
    /\ \E key \in keys, env \in envs :
          Perform("get_node_for_key", <<key>>, <<>>, 0, 0, FALSE, FALSE,
                  get_node_for_key_slot(get_key_slot(Begin, key, env), env))

close ==
    Perform("close", <<>>, <<>>, 0, 0, FALSE, FALSE, Closed(Begin))

(***************************************************************************)
(* The store's own steps                                                   *)
(***************************************************************************)
\* One second passes: every expiry counts down, and a key whose expiry
\* runs out is deleted.  The latest step is then no operation of the client.
Tick ==
    /\ \E k \in Keys : ttl[k] > 0
    /\ ttl' = [k \in Keys |-> IF ttl[k] > 0 THEN ttl[k] - 1 ELSE 0]
    /\ db' = [k \in Keys |-> IF ttl[k] = 1 THEN NoEntry ELSE db[k]]
    /\ written' = [k \in Keys |-> IF ttl[k] = 1 THEN NotWritten ELSE written[k]]
    /\ slotSeen' = Noted
    /\ last' = NoLast
    /\ UNCHANGED <<kind, _client, constructed, shutdown, subs, slots, pc, seen,
                   overlapped>>

(***************************************************************************)
(* The full operation surface, on small inputs                             *)
(***************************************************************************)
TextA == <<"a">>

TextB == <<"b">>

\* A text that starts like a structured value and is none
TextBad == <<"[", "a">>

\* The arguments the operations are called with
Small ==
    [keys |-> {"k1"},
     values |-> {PyList(<<PyStr(TextA)>>)},
     mappings |-> {PyDict(<<PyStr(<<"f">>), PyStr(TextA)>>)},
     fields |-> {<<"f">>},
     lists |-> {<<PyStr(TextA)>>},
     ranges |-> {<<0, -1>>}]

Init ==
    /\ kind \in {"single", "cluster"}
    /\ _client = 0
    /\ constructed = 0
    /\ shutdown = {}
    /\ db = [k \in Keys |-> NoEntry]
    /\ ttl = [k \in Keys |-> 0]
    /\ subs = [ch \in Channels |-> 0]
    /\ slots = SlotTable1
    /\ pc = [c \in Callers |-> "idle"]
    /\ seen = [c \in Callers |-> 0]
    /\ overlapped = FALSE
    /\ written = [k \in Keys |-> NotWritten]
    /\ slotSeen = [k \in Keys |-> -1]
    /\ last = NoLast

\* A cluster client after construction
InitCluster == Init /\ kind = "cluster"

Next ==
    \/ RedisClusterClient_set(Small.keys, Small.values, {0, MaxExpire},
                              {[nx |-> FALSE, xx |-> FALSE]}, Env2)
    \/ RedisClient_set(Small.keys, Small.values, {0, MaxExpire}, Env2)
    \/ get(Small.keys, Env1)
    \/ RedisClusterClient_delete({<<"k1">>}, Env1)
    \/ RedisClient_delete(Small.keys, Env1)
    \/ RedisClusterClient_exists({<<"k1">>}, Env1)
    \/ RedisClient_exists(Small.keys, Env1)
    \/ set_hash(Small.keys, Small.mappings, Env1)
    \/ get_hash(Small.keys, Env1)
    \/ RedisClusterClient_get_hash_field(Small.keys, Small.fields, Env1)
    \/ delete_hash(Small.keys, {<<f>> : f \in Small.fields}, Env1)
    \/ push_list(Small.keys, Small.lists, Env1)
    \/ get_list(Small.keys, Small.ranges, Env1)
    \/ add_to_set(Small.keys, Small.lists, Env1)
    \/ get_set(Small.keys, Env1)
    \/ publish(Small.values, Env1)
    \/ subscribe(Env1)
    \/ RedisClusterClient_get_cluster_nodes(Env1)
    \/ RedisClusterClient_get_cluster_slots(Env1)
    \/ RedisClusterClient_get_key_slot(Small.keys, Env1)
    \/ RedisClusterClient_get_node_for_key(Small.keys, Env2)
    \/ close

Spec == Init /\ [][Next]_vars

(***************************************************************************)
(* set with its conditions and expiries, while the store's clock runs      *)
(***************************************************************************)
Values2 == {PyStr(TextA), PyStr(TextB)}

NextSet ==
    \/ RedisClusterClient_set(Small.keys, Values2, Expires, Conds, Env2)
    \/ RedisClient_set(Small.keys, Values2, Expires, Env2)
    \/ get(Small.keys, {NoEnv})
    \/ RedisClusterClient_delete({<<"k1">>}, {NoEnv})
    \/ RedisClient_delete(Small.keys, {NoEnv})
    \/ RedisClusterClient_exists({<<"k1">>}, {NoEnv})
    \/ RedisClient_exists(Small.keys, {NoEnv})
    \/ close
    \/ Tick

SpecSet == Init /\ [][NextSet]_vars

(***************************************************************************)
(* The codec: structured values and texts under one key                    *)
(***************************************************************************)
\* The values given to set: a list, a mapping with a key that is no text, a
\* mapping with text keys, a nested list, a list json.dumps refuses, texts
\* and an integer; and the elements given to push_list and add_to_set
Codec ==
    [values |-> {PyList(<<PyStr(TextA)>>),
                 PyDict(<<PyInt(1), PyStr(TextA)>>),
                 PyDict(<<PyStr(TextA), PyInt(1)>>),
                 PyList(<<PyNone, PyList(<<PyTrue>>)>>),
                 PyList(<<PySet({})>>),
                 PyStr(TextA),
                 PyStr(TextBad),
                 PyStr(<<"1">>),
                 PyStr(LitNull),
                 PyInt(1)},
     elements |-> {<<PyStr(TextA)>>, <<PyStr(TextBad)>>, <<PyStr(<<"{">>)>>,
                   <<PyList(<<PyStr(TextA)>>)>>},
     envs |-> {e \in Env : ~e.cfail /\ e.fail <= 1}]

NextCodec ==
    \/ RedisClusterClient_set(Small.keys, Codec.values, {0},
                              {[nx |-> FALSE, xx |-> FALSE]}, Codec.envs)
    \/ RedisClient_set(Small.keys, Codec.values, {0}, Codec.envs)
    \/ get(Small.keys, Codec.envs)
    \/ RedisClusterClient_delete({<<"k1">>}, {NoEnv})
    \/ RedisClient_delete(Small.keys, {NoEnv})
    \/ push_list(Small.keys, Codec.elements, {NoEnv})
    \/ get_list(Small.keys, Small.ranges, {NoEnv})
    \/ add_to_set(Small.keys, Codec.elements, {NoEnv})
    \/ get_set(Small.keys, {NoEnv})

SpecCodec == Init /\ [][NextCodec]_vars

(***************************************************************************)
(* Callers that share one instance.  An operation of a caller is three     *)
(* steps: the test of the client property reads self._client; the rest of  *)
(* the property constructs and stores a handle if the test found none, and *)
(* returns what self._client then holds; the store call goes through the   *)
(* handle returned.  The steps of different callers interleave, as the     *)
(* instance has no lock.  seen[c] is what the caller read last, and        *)
(* overlapped records that an operation began while another was running.   *)
(***************************************************************************)
\* Another caller is inside an operation.
OthersRunning(c) == \E d \in Callers \ {c} : pc[d] /= "idle"

\* if self._client is None:
CallerEnter(c) ==
    /\ pc[c] = "idle"
    /\ pc' = [pc EXCEPT ![c] = "entered"]
    /\ seen' = [seen EXCEPT ![c] = _client]
    /\ overlapped' = (overlapped \/ OthersRunning(c))
    /\ UNCHANGED <<kind, _client, constructed, shutdown, db, ttl, subs, slots, written,
                   slotSeen,
                   last>>

\* The property after its test, on what the test read:
\* self._client = <a new handle>, if it read None, and return self._client
CallerObtain(c, r) ==
    /\ pc[c] = "entered"
    /\ r.made <= MaxHandles
    /\ constructed' = r.made
    /\ _client' = IF r.cl /= seen[c] THEN r.cl ELSE _client
    /\ seen' = [seen EXCEPT ![c] = _client']
    /\ pc' = [pc EXCEPT ![c] = "holding"]
    /\ UNCHANGED <<kind, shutdown, db, ttl, subs, slots, overlapped, written, slotSeen,
                   last>>

\* The store call of the operation, here a set, through the handle the
\* property returned; None has no set, and the transport may fail.
CallerCall(c, r) ==
    /\ pc[c] = "holding"
    /\ db' = r.w.db
    /\ ttl' = r.w.ttl
    /\ written' = [k \in Keys |-> IF r.w.db[k] = db[k] THEN written[k] ELSE NotWritten]
    /\ pc' = [pc EXCEPT ![c] = "idle"]
    /\ UNCHANGED <<kind, _client, constructed, shutdown, subs, slots, seen, overlapped,
                   slotSeen, last>>

\* close() by a caller, taken as one step
CallerClose(c, out) ==
    /\ pc[c] = "idle"
    /\ _client' = out.cl
    /\ shutdown' = shutdown \cup {out.calls[i].h : i \in 1..Len(out.calls)}
    /\ overlapped' = (overlapped \/ OthersRunning(c))
    /\ UNCHANGED <<kind, constructed, db, ttl, subs, slots, pc, seen, written, slotSeen,
                   last>>

NextConc ==
    \/ \E c \in Callers : CallerEnter(c)
    \/ \E c \in Callers :
          CallerObtain(c, client(Start(seen[c], constructed, W), FALSE))
    \/ \E c \in Callers, key \in Small.keys, value \in Values2, failed \in BOOLEAN :
          CallerCall(c, Send(Start(seen[c], constructed, W),
                             Call("set", <<key>>, <<value.s>>, "", 0, 0, 0, failed),
                             seen[c] /= 0, StoreSet(W, key, value.s, "")))
    \/ \E c \in Callers : CallerClose(c, Closed(Begin))

SpecConc == Init /\ [][NextConc]_vars

(***************************************************************************)
(* set with an expiry, call by call.  The write and the expire are two     *)
(* store calls of one set(key, value, expire=MaxExpire): a caller that has *)
(* done the write is at "written" until its expire call is done.  Between  *)
(* the two, other callers write and read, the store's clock runs, and the  *)
(* process may stop, after which no caller takes a step.  last is the      *)
(* latest whole operation; a call of such a set leaves none.               *)
(***************************************************************************)
\* A set that does its write and its expire in one step.
SetWriteAtomic(c, r) ==
    /\ pc[c] = "idle"
    /\ r.made <= MaxHandles
    /\ _client' = r.cl
    /\ constructed' = r.made
    /\ db' = r.w.db
    /\ ttl' = IF r.exc THEN r.w.ttl
              ELSE StoreExpire(r.w, r.calls[1].keys[1], MaxExpire).w.ttl
    /\ written' = [k \in Keys |-> IF r.w.db[k] = db[k] THEN written[k] ELSE NotWritten]
    /\ last' = NoLast
    /\ UNCHANGED <<kind, shutdown, subs, slots, pc, seen, overlapped, slotSeen>>

\* self.client.set(key, value), of a set without nx and xx: r is the run
\* after the call.  A call that raised ends the set.
SetWrite(c, r) ==
    /\ pc[c] = "idle"
    /\ r.made <= MaxHandles
    /\ _client' = r.cl
    /\ constructed' = r.made
    /\ db' = r.w.db
    /\ ttl' = r.w.ttl
    /\ written' = [k \in Keys |-> IF r.w.db[k] = db[k] THEN written[k] ELSE NotWritten]
    /\ pc' = [pc EXCEPT ![c] = IF r.exc \/ ~Truthy(r.reply) THEN "idle" ELSE "written"]
    /\ last' = NoLast
    /\ UNCHANGED <<kind, shutdown, subs, slots, seen, overlapped, slotSeen>>

\* self.client.expire(key, expire), after the write: r is the run after
\* the call.
SetExpire(c, r) ==
    /\ pc[c] = "written"
    /\ r.made <= MaxHandles
    /\ _client' = r.cl
    /\ constructed' = r.made
    /\ db' = r.w.db
    /\ ttl' = r.w.ttl
    /\ pc' = [pc EXCEPT ![c] = "idle"]
    /\ last' = NoLast
    /\ UNCHANGED <<kind, shutdown, subs, slots, seen, overlapped, written, slotSeen>>

\* The process stops while a set is between its two calls.
Stop ==
    /\ \E c \in Callers : pc[c] = "written"
    /\ pc' = [c \in Callers |-> "stopped"]
    /\ UNCHANGED <<kind, _client, constructed, shutdown, db, ttl, subs, slots, seen,
                   overlapped, written, slotSeen, last>>

Running == \A c \in Callers : pc[c] /= "stopped"

NextSteps ==
    \/ \E c \in Callers, key \in Small.keys, value \in Values2, failed \in BOOLEAN :
          SetWrite(c, Via(Begin, FALSE,
                          Call("set", <<key>>, <<value.s>>, "", 0, 0, 0, failed),
                          StoreSet(W, key, value.s, "")))
    \/ \E c \in Callers, key \in Small.keys, failed \in BOOLEAN :
          SetExpire(c, Via(Begin, FALSE,
                           Call("expire", <<key>>, <<>>, "", MaxExpire, 0, 0, failed),
                           StoreExpire(W, key, MaxExpire)))
    \/ Running /\ get(Small.keys, {NoEnv})
    \/ Running /\ RedisClusterClient_exists({<<"k1">>}, {NoEnv})
    \/ Running /\ RedisClient_exists(Small.keys, {NoEnv})
    \/ Running /\ close
    \/ Stop
    \/ Tick

SpecSteps == Init /\ [][NextSteps]_vars

(***************************************************************************)
(* The topology queries, while the store's slot table changes              *)
(***************************************************************************)
\* The ranges the store's table is made of: two that share no slot, one
\* that overlaps the first, one without nodes, and one of a single slot.
SlotRanges ==
    {[start |-> 0, end |-> 1, nodes |-> <<"n1", "n2">>],
     [start |-> 2, end |-> NumSlots - 1, nodes |-> <<"n2">>],
     [start |-> 1, end |-> NumSlots - 1, nodes |-> <<"n3", "n1">>],
     [start |-> 0, end |-> NumSlots - 1, nodes |-> <<>>],
     [start |-> 0, end |-> 0, nodes |-> <<"n2">>]}

\* The store's slot table changes: a range is added to it or taken from it.
\* The latest step is then no operation of the client.
Reshard ==
    /\ kind = "cluster"
    /\ \E t \in {Append(slots, r) : r \in SlotRanges}
                  \cup {SubSeq(slots, 1, Len(slots) - 1)} :
          /\ t /= slots
          /\ Len(t) <= MaxRanges
          /\ slots' = t
    /\ slotSeen' = [k \in Keys |-> -1]
    /\ last' = NoLast
    /\ UNCHANGED <<kind, _client, constructed, shutdown, db, ttl, subs, pc, seen,
                   overlapped, written>>

NextTopo ==
    \/ RedisClusterClient_get_key_slot(Keys, Env1)
    \/ RedisClusterClient_get_node_for_key(Keys, Env2)
    \/ RedisClusterClient_get_cluster_slots(Env1)
    \/ RedisClusterClient_get_cluster_nodes(Env1)
    \/ RedisClusterClient_set(Small.keys, {PyStr(TextA)}, {0},
                              {[nx |-> FALSE, xx |-> FALSE]}, {NoEnv})
    \/ RedisClusterClient_delete({<<"k1">>}, {NoEnv})
    \/ close
    \/ Reshard

SpecTopo == InitCluster /\ [][NextTopo]_vars

(***************************************************************************)
(* delete and exists of the cluster client, on several keys at once        *)
(***************************************************************************)
\* The keys one call names: none, one, two, and one twice
KeyLists == {<<>>, <<"k1">>, <<"k2">>, <<"k1", "k2">>, <<"k2", "k1">>, <<"k1", "k1">>}

NextKeys ==
    \/ RedisClusterClient_set(Keys, {PyStr(TextA)}, {0},
                              {[nx |-> FALSE, xx |-> FALSE]}, {NoEnv})
    \/ push_list({"k2"}, Small.lists, {NoEnv})
    \/ RedisClusterClient_delete(KeyLists, Env1)
    \/ RedisClusterClient_exists(KeyLists, Env1)
    \/ close

SpecKeys == InitCluster /\ [][NextKeys]_vars

(***************************************************************************)
(* The hash operations of the cluster client, on two fields                *)
(***************************************************************************)
\* Mappings of one and of two fields, and the empty one; field lists of
\* one field, of two, and of one named twice
Hashes ==
    [mappings |-> {PyDict(<<>>),
                   PyDict(<<PyStr(<<"f">>), PyStr(TextA)>>),
                   PyDict(<<PyStr(<<"f">>), PyStr(TextB)>>),
                   PyDict(<<PyStr(<<"g">>), PyStr(TextA)>>),
                   PyDict(<<PyStr(<<"f">>), PyStr(TextB), PyStr(<<"g">>), PyStr(TextB)>>)},
     fields |-> {<<"f">>, <<"g">>},
     fieldLists |-> {<<<<"f">>>>, <<<<"g">>>>, <<<<"f">>, <<"g">>>>, <<<<"g">>, <<"g">>>>}]

NextHash ==
    \/ set_hash(Small.keys, Hashes.mappings, Env1)
    \/ get_hash(Small.keys, Env1)
    \/ RedisClusterClient_get_hash_field(Small.keys, Hashes.fields, Env1)
    \/ delete_hash(Small.keys, Hashes.fieldLists, Env1)
    \/ RedisClusterClient_delete({<<"k1">>}, {NoEnv})
    \/ close

SpecHash == InitCluster /\ [][NextHash]_vars

(***************************************************************************)
(* The list operations of both clients, on every range of a short list     *)
(***************************************************************************)
\* The values one push_list is given (texts, and a list, which is sent
\* serialized), and the ranges get_list is asked for
Lists ==
    [values |-> {<<>>,
                 <<PyStr(TextA)>>,
                 <<PyStr(TextA), PyStr(TextB)>>,
                 <<PyStr(TextB), PyList(<<PyStr(TextA)>>)>>},
     ranges |-> {<<s, e>> : s \in (0 - MaxListLen)..MaxListLen,
                            e \in (0 - MaxListLen - 1)..MaxListLen}]

NextList ==
    \/ push_list(Small.keys, Lists.values, Env1)
    \/ get_list(Small.keys, Lists.ranges, {NoEnv})
    \/ RedisClusterClient_delete({<<"k1">>}, {NoEnv})
    \/ RedisClient_delete(Small.keys, {NoEnv})
    \/ close

SpecList == Init /\ [][NextList]_vars

(***************************************************************************)
(* The relational client (app/db/mysql_client.py, class MySQLClient): the  *)
(* validation of the table name and the one query of fetch_all, insert,    *)
(* update and delete.  A table name is a text; the query is a call with    *)
(* the statement's verb as its command and the table as its payload, and   *)
(* the database answers it with rows, an id or a row count.  An error of   *)
(* the connection leaves the method, as does the ValueError of a refused   *)
(* name.                                                                   *)
(***************************************************************************)
\* str.isalnum(): at least one character, and all of them letters or digits
\* (of ASCII, which is what the names here are made of)
isalnum(text) ==
    /\ text /= <<>>
    /\ \A i \in 1..Len(text) :
          text[i] \in Digits \cup {"a", "b", "c", "d", "e", "f", "g", "h", "i", "j", "k", "l", "m",
                                  "n", "o", "p", "q", "r", "s", "t", "u", "v", "w", "x", "y", "z",
                                  "A", "B", "C", "D", "E", "F", "G", "H", "I", "J", "K", "L", "M",
                                  "N", "O", "P", "Q", "R", "S", "T", "U", "V", "W", "X", "Y", "Z"}

\* return bool(table and table.isalnum() and not table.isspace())
_is_valid_table_name(table) ==
    /\ table /= <<>>
    /\ isalnum(table)
    /\ ~(\A i \in 1..Len(table) : table[i] \in {" ", "\n", "\t", "\r"})

\* if not self._is_valid_table_name(table): raise ValueError(...), and then
\* the query: r1 is the run after its execute, whose result is returned and
\* whose error is raised.
OnValidTable(table, r1) ==
    IF _is_valid_table_name(table)
    THEN Outcome(r1, r1.exc, r1.reply)
    ELSE Outcome(Raise(Begin), TRUE, PyNone)

MySQLClient_fetch_all(tables, replies) ==
    \E table \in tables, rows \in replies, failed \in BOOLEAN :
        Perform("fetch_all", <<>>, <<PyStr(table)>>, 0, 0, FALSE, FALSE,
                OnValidTable(table,
                             Issued(Begin,
                                    Call("SELECT", <<>>, <<table>>, "", 0, 0, 0, failed),
                                    IF failed THEN Refused(W) ELSE Reply(W, rows))))

MySQLClient_insert(tables, replies) ==
    \E table \in tables, lastrowid \in replies, failed \in BOOLEAN :
        Perform("insert", <<>>, <<PyStr(table)>>, 0, 0, FALSE, FALSE,
                OnValidTable(table,
                             Issued(Begin,
                                    Call("INSERT", <<>>, <<table>>, "", 0, 0, 0, failed),
                                    IF failed THEN Refused(W) ELSE Reply(W, lastrowid))))

MySQLClient_update(tables, replies) ==
    \E table \in tables, rowcount \in replies, failed \in BOOLEAN :
        Perform("update", <<>>, <<PyStr(table)>>, 0, 0, FALSE, FALSE,
                OnValidTable(table,
                             Issued(Begin,
                                    Call("UPDATE", <<>>, <<table>>, "", 0, 0, 0, failed),
                                    IF failed THEN Refused(W) ELSE Reply(W, rowcount))))

MySQLClient_delete(tables, replies) ==
    \E table \in tables, rowcount \in replies, failed \in BOOLEAN :
        Perform("delete", <<>>, <<PyStr(table)>>, 0, 0, FALSE, FALSE,
                OnValidTable(table,
                             Issued(Begin,
                                    Call("DELETE", <<>>, <<table>>, "", 0, 0, 0, failed),
                                    IF failed THEN Refused(W) ELSE Reply(W, rowcount))))

\* The table names of up to n characters: of a letter, a digit, the
\* underscore and the space
RECURSIVE Names(_)
Names(n) ==
    IF n = 0 THEN {<<>>}
    ELSE Names(n - 1) \cup {Append(t, c) : t \in Names(n - 1), c \in {"t", "1", "_", " "}}

NextSql ==
    \/ MySQLClient_fetch_all(Names(MaxName),
                             {PyList(<<>>),
                              PyList(<<PyDict(<<PyStr(<<"i", "d">>), PyInt(1)>>)>>)})
    \/ MySQLClient_insert(Names(MaxName), {PyInt(1), PyInt(2)})
    \/ MySQLClient_update(Names(MaxName), {PyInt(0), PyInt(1)})
    \/ MySQLClient_delete(Names(MaxName), {PyInt(0), PyInt(1)})

SpecSql == Init /\ [][NextSql]_vars

(***************************************************************************)
(* Properties: failures                                                    *)
(***************************************************************************)
\* The transport failed under a store call of the operation.
TransportFailed(l) == \E i \in 1..Len(l.calls) : l.calls[i].failed

\* The documented safe default of an operation.
SafeDefault(k, op) ==
    CASE op \in {"get", "get_hash_field", "subscribe"} -> PyNone
      [] op \in {"set", "set_hash"} -> PyFalse
      [] op \in {"delete", "exists"} -> IF k = "single" THEN PyFalse ELSE PyInt(0)
      [] op \in {"delete_hash", "push_list", "add_to_set", "publish"} -> PyInt(0)
      [] op = "get_hash" -> PyDict(<<>>)
      [] op \in {"get_list", "get_cluster_nodes", "get_cluster_slots"} -> PyList(<<>>)
      [] op = "get_set" -> PySet({})
      [] op = "get_key_slot" -> PyInt(-1)
      [] op = "get_node_for_key" -> PyDict(<<>>)
      [] OTHER -> PyNone

\* C1: an operation under whose store call the transport failed does not
\* raise: it returns its documented safe default.
C1_FailSoft ==
    TransportFailed(last) => ~last.raised /\ last.result = SafeDefault(kind, last.op)

\* A push_list on the cluster client met a transport failure and returned 0.
C1_Witness ==
    /\ kind = "cluster"
    /\ last.op = "push_list"
    /\ TransportFailed(last)
    /\ last.result = PyInt(0)

\* C2: an operation that found the handle could not be constructed raises
\* to its caller.
C2_ConstructionSurfaced == last.cfailed => last.raised

(***************************************************************************)
(* Properties: the connection handle                                       *)
(***************************************************************************)
\* Every call of the record went through the handle h.
AllThrough(l, h) == \A i \in 1..Len(l.calls) : l.calls[i].h = h

\* What C8 asks of one step of the client.
LazyReuseStep ==
    /\ constructed' /= constructed =>
          _client = 0 /\ constructed' = constructed + 1 /\ _client' = constructed'
    /\ _client /= 0 /\ last'.op \notin {"close", "none"} =>
          /\ _client' = _client
          /\ constructed' = constructed
          /\ AllThrough(last', _client)
    /\ _client = 0 /\ last'.op \notin {"close", "none"} /\ ~last'.cfailed =>
          /\ constructed' = constructed + 1
          /\ _client' = constructed'
          /\ AllThrough(last', constructed')
    /\ shutdown' = {} => constructed' <= 1

\* C8: a new instance has no handle; an operation that finds none and can
\* construct one constructs exactly one and uses it; an operation that
\* finds one constructs none and uses the one it found; and as long as no
\* handle was closed at most one was ever constructed.
C8_LazyReuse == (_client = 0 /\ constructed = 0) /\ [][LazyReuseStep]_vars

\* A get went through the one handle an earlier set had constructed.
C8_Witness ==
    /\ constructed = 1
    /\ _client = 1
    /\ shutdown = {}
    /\ last.op = "get"
    /\ last.calls /= <<>>
    /\ AllThrough(last, 1)
    /\ db["k1"].type = "string"

\* C9: a close on an instance that holds a handle requests the shutdown of
\* that handle once and clears the reference; a close on an instance that
\* holds none, as after a close or on a new instance, requests nothing,
\* constructs nothing and changes nothing.
C9_CloseIdempotent ==
    [][last'.op = "close" =>
         /\ _client' = 0
         /\ constructed' = constructed
         /\ UNCHANGED <<db, ttl, subs>>
         /\ IF _client /= 0
            THEN /\ _client \notin shutdown
                 /\ shutdown' = shutdown \cup {_client}
                 /\ Len(last'.calls) = 1
                 /\ last'.calls[1].cmd = "close"
                 /\ last'.calls[1].h = _client
            ELSE /\ shutdown' = shutdown
                 /\ last'.calls = <<>>
         /\ last.op = "close" =>
               UNCHANGED <<_client, constructed, shutdown>> /\ last'.calls = <<>>
         /\ last = NoLast => constructed' = 0 /\ shutdown' = {}]_vars

\* A close found no handle after the one handle had been shut down.
C9_Witness ==
    /\ last.op = "close"
    /\ last.calls = <<>>
    /\ _client = 0
    /\ constructed = 1
    /\ shutdown = {1}

(***************************************************************************)
(* Properties: set                                                         *)
(***************************************************************************)
\* The commands of the record's calls.
Issues(l, cmd) == \E i \in 1..Len(l.calls) : l.calls[i].cmd = cmd

\* C3: a set of the cluster client with nx and xx both true issues no write
\* and does not report success.
C3_BothRejected ==
    kind = "cluster" /\ last.op = "set" /\ last.nx /\ last.xx =>
        ~Issues(last, "set") /\ last.result /= PyTrue

\* The record is of a set whose conditional write reached the store, which
\* holds the entry e under the key and so skips the write.
SkippedWrite(l, e) ==
    /\ l.op = "set"
    /\ l.calls /= <<>>
    /\ l.calls[1].cmd = "set"
    /\ ~l.calls[1].failed
    /\ \/ l.calls[1].flag = "nx" /\ e.type /= "none"
       \/ l.calls[1].flag = "xx" /\ e.type = "none"

\* What C4 asks of one step of the cluster client.
ExpireOnlyAfterWriteStep ==
    /\ last'.op = "set" /\ Issues(last', "expire") =>
          last'.calls[1].cmd = "set" /\ last'.calls[1].reply = PyTrue
    /\ last'.op = "set" /\ SkippedWrite(last', db[last'.keys[1]]) =>
          /\ ~Issues(last', "expire")
          /\ ttl' = ttl
          /\ db' = db
          /\ last'.result = PyFalse

\* C4: the cluster client's set issues expire only after a write that the
\* store reported as done; when the store skips a conditional write, no
\* expire is issued, the key keeps the expiry and the value it had, and set
\* returns false.
C4_ExpireOnlyAfterWrite == [][kind = "cluster" => ExpireOnlyAfterWriteStep]_vars

\* A set with nx and an expiry was skipped on a key that keeps another expiry.
C4_Witness ==
    /\ kind = "cluster"
    /\ last.op = "set"
    /\ last.n > 0
    /\ last.calls /= <<>>
    /\ last.calls[1].flag = "nx"
    /\ last.calls[1].reply = PyNone
    /\ ~last.calls[1].failed
    /\ ttl[last.keys[1]] > 0
    /\ ttl[last.keys[1]] /= last.n
    /\ last.result = PyFalse

(***************************************************************************)
(* Properties: the codec                                                   *)
(***************************************************************************)
\* The record is of the operation op, whose store call was answered.
Answered(l, op) == l.op = op /\ l.calls /= <<>> /\ ~l.calls[1].err

\* The text cannot be deserialized.
Undecodable(v) == v.t = "str" /\ ~json_loads(v.s).ok

\* C5: get returns a stored text that cannot be deserialized as it is;
\* get_list and get_set return as many elements as the store gave, those
\* that cannot be deserialized as they are.
C5_DecodeNeverFails ==
    /\ Answered(last, "get") /\ Undecodable(last.calls[1].reply) =>
          last.result = last.calls[1].reply
    /\ Answered(last, "get_list") =>
          /\ Len(last.result.kids) = Len(last.calls[1].reply.kids)
          /\ \A i \in 1..Len(last.calls[1].reply.kids) :
                Undecodable(last.calls[1].reply.kids[i]) =>
                    last.result.kids[i] = last.calls[1].reply.kids[i]
    /\ Answered(last, "get_set") =>
          /\ Cardinality(last.result.mem) = Cardinality(last.calls[1].reply.mem)
          /\ \A m \in last.calls[1].reply.mem : Undecodable(m) => m \in last.result.mem

\* The key holds the serialization of the structured value written to it.
HoldsSerialization(k) == db[k] = StrEntry(json_dumps(written[k]).text)

\* The get of the record returned a value equal to the one written to its key.
ReturnsWritten(l) == PyEq(l.result, written[l.keys[1]])

\* C6 as stated: every structured value written to a key is stored as its
\* serialization, and a get that follows returns an equal value.
C6_RoundTripAny ==
    /\ \A k \in Keys : IsDictOrList(written[k]) => HoldsSerialization(k)
    /\ Answered(last, "get") /\ IsDictOrList(written[last.keys[1]]) => ReturnsWritten(last)

\* The value is built of None, booleans, integers, texts, lists and dicts
\* whose keys are texts.
RECURSIVE JsonNative(_)
JsonNative(v) ==
    CASE v.t \in {"none", "bool", "int", "str"} -> TRUE
      [] v.t = "list" -> \A i \in 1..Len(v.kids) : JsonNative(v.kids[i])
      [] v.t = "dict" ->
            /\ \A i \in 1..Len(v.kids) : JsonNative(v.kids[i])
            /\ \A i \in 1..(Len(v.kids) \div 2) : v.kids[2 * i - 1].t = "str"
      [] OTHER -> FALSE

\* C6: every structured value written to a key is stored as its
\* serialization, and a get that follows, with no write between and no
\* transport failure, returns an equal value when the value is built of
\* None, booleans, integers, texts, lists and dicts with text keys.
C6_RoundTrip ==
    /\ \A k \in Keys : IsDictOrList(written[k]) => HoldsSerialization(k)
    /\ /\ Answered(last, "get")
       /\ IsDictOrList(written[last.keys[1]])
       /\ JsonNative(written[last.keys[1]])
       => ReturnsWritten(last) /\ last.result = written[last.keys[1]]

\* A get returned the nested list that was written.
C6_Witness ==
    /\ Answered(last, "get")
    /\ written["k1"] = PyList(<<PyNone, PyList(<<PyTrue>>)>>)
    /\ last.result = PyList(<<PyNone, PyList(<<PyTrue>>)>>)

\* C7: a text that is not valid structured syntax is stored as it is, and
\* a get that follows, with no write between, returns exactly that text.
C7_ScalarPassthrough ==
    /\ \A k \in Keys : Undecodable(written[k]) => db[k] = StrEntry(written[k].s)
    /\ Answered(last, "get") /\ Undecodable(written[last.keys[1]]) =>
          last.result = written[last.keys[1]]

\* A get returned the text [a that was written.
C7_Witness ==
    /\ Answered(last, "get")
    /\ written["k1"] = PyStr(TextBad)
    /\ last.result = PyStr(TextBad)

(***************************************************************************)
(* Properties: callers that share the instance                             *)
(***************************************************************************)
\* The handles constructed for the instance and not shut down.
Live == (1..constructed) \ shutdown

\* C10 as stated: whatever the callers do, at most one handle is live, and
\* a live handle is the one the instance references.
C10_OneLiveHandle == Cardinality(Live) <= 1 /\ Live \subseteq {_client}

\* C10: as long as no operation began while another caller's operation was
\* running, at most one handle is live, and a live handle is the one the
\* instance references.
C10_OneLiveHandleInTurn ==
    ~overlapped => Cardinality(Live) <= 1 /\ Live \subseteq {_client}

\* Two callers, one after the other, got the one handle of the instance.
C10_Witness ==
    /\ ~overlapped
    /\ constructed = 1
    /\ Live = {1}
    /\ seen["c1"] = 1
    /\ seen["c2"] = 1
    /\ \A c \in Callers : pc[c] = "idle"

(***************************************************************************)
(* Properties: expiry                                                      *)
(***************************************************************************)
\* The record is of a set with an expiry that returned true.
SetWithExpire(l) == l.op = "set" /\ l.n > 0 /\ l.result = PyTrue

\* What C11 asks of one step.
TtlStep ==
    /\ SetWithExpire(last') =>
          /\ db'[last'.keys[1]].type /= "none"
          /\ ttl'[last'.keys[1]] = last'.n
          /\ \E i \in 1..Len(last'.calls) :
                /\ last'.calls[i].cmd = "expire"
                /\ last'.calls[i].keys = last'.keys
                /\ last'.calls[i].n = last'.n
    /\ SetWithExpire(last) /\ Answered(last', "exists") /\ last'.keys = last.keys =>
          Truthy(last'.result)
    /\ last' = NoLast =>
          \A k \in Keys :
             /\ ttl[k] > 0 => ttl'[k] = ttl[k] - 1
             /\ db[k].type /= "none" /\ db'[k].type = "none" => ttl[k] = 1

\* C11: once set with the expiry N > 0 has returned true, the key is
\* present with N seconds left, an exists that follows at once is true, and
\* the store takes one second off per second and deletes the key for its
\* expiry only when the last second runs out: not earlier than N seconds
\* after the set.
C11_TtlContract == [][TtlStep]_vars

\* A second has passed since a set with the longest expiry: the key is
\* there, with less time left.
C11_Witness ==
    /\ last = NoLast
    /\ db["k1"].type = "string"
    /\ ttl["k1"] = MaxExpire - 1
    /\ written["k1"] /= NotWritten

(***************************************************************************)
(* Properties: the conditional write                                       *)
(***************************************************************************)
\* The store did the write of the set of the record.
Wrote(l) == l.calls /= <<>> /\ l.calls[1].cmd = "set" /\ l.calls[1].reply = PyTrue

\* A call of the record raised.
CallRaised(l) == \E i \in 1..Len(l.calls) : l.calls[i].err

\* The step is a set of the cluster client with at most one condition.
ConditionalSetStep == kind = "cluster" /\ last'.op = "set" /\ ~(last'.nx /\ last'.xx)

\* What C12 asks of such a set, but for its result: one write goes to the
\* store, with the one flag asked for; the store does it exactly when the
\* key's presence is as asked; a write that is done leaves the new text,
\* and one that is not leaves the key and its expiry as they were.
ConditionalWrite(key) ==
    /\ last'.calls /= <<>> =>
          /\ last'.calls[1].cmd = "set"
          /\ last'.calls[1].keys = <<key>>
          /\ last'.calls[1].flag = (IF last'.nx THEN "nx" ELSE IF last'.xx THEN "xx" ELSE "")
          /\ \A i \in 2..Len(last'.calls) : last'.calls[i].cmd /= "set"
    /\ last'.calls /= <<>> /\ ~last'.calls[1].failed =>
          (Wrote(last') <=> /\ last'.nx => db[key].type = "none"
                            /\ last'.xx => db[key].type /= "none")
    /\ Wrote(last') => db'[key] = StrEntry(last'.calls[1].args[1])
    /\ ~Wrote(last') => db'[key] = db[key] /\ ttl'[key] = ttl[key]

\* C12 as stated: such a set returns true exactly when the store did the
\* write.
C12_TrueIffWritten ==
    [][ConditionalSetStep =>
          /\ ConditionalWrite(last'.keys[1])
          /\ last'.result = PyTrue <=> Wrote(last')]_vars

\* C12: such a set returns true exactly when the store did the write and
\* no call of the set, the expire after the write included, raised.
C12_ConditionalWrite ==
    [][ConditionalSetStep =>
          /\ ConditionalWrite(last'.keys[1])
          /\ last'.result = PyTrue <=> (Wrote(last') /\ ~CallRaised(last'))
          /\ last'.result \in {PyTrue, PyFalse}]_vars

\* A set with xx replaced the text of a present key and returned true.
C12_Witness ==
    /\ kind = "cluster"
    /\ last.op = "set"
    /\ last.xx /\ ~last.nx
    /\ Wrote(last)
    /\ last.calls[1].flag = "xx"
    /\ last.result = PyTrue
    /\ db["k1"] = StrEntry(TextB)
    /\ written["k1"] = PyStr(TextB)

(***************************************************************************)
(* Properties: the topology                                                *)
(***************************************************************************)
\* The slot of a key in the store, and the ranges of the store's table
\* that hold a slot.
SlotOf(k) == KeyHash(k) % NumSlots

Holding(s) == {i \in 1..Len(slots) : slots[i].start <= s /\ s <= slots[i].end}

\* The latest operation is a get_node_for_key all of whose store calls
\* were answered.
LookedUp ==
    /\ last.op = "get_node_for_key"
    /\ Len(last.calls) = 2
    /\ ~CallRaised(last)

\* C13: when the slot of the key lies in exactly one range of the slot
\* table, bounds included, get_node_for_key returns the first node
\* descriptor of that range.
C13_NodeLookup ==
    LookedUp /\ Cardinality(Holding(SlotOf(last.keys[1]))) = 1 =>
        \A i \in Holding(SlotOf(last.keys[1])) :
           slots[i].nodes /= <<>> => last.result = Node(slots[i].nodes[1])

\* The slot of k1 is the end of the one range that holds it, and the
\* lookup returned the first of the two nodes of the range.
C13_Witness ==
    /\ LookedUp
    /\ last.keys = <<"k1">>
    /\ Holding(SlotOf("k1")) = {1}
    /\ slots[1].end = SlotOf("k1")
    /\ Len(slots[1].nodes) = 2
    /\ last.result = Node(slots[1].nodes[1])

\* C14: get_node_for_key never raises; it returns the empty descriptor
\* when get_key_slot gave -1, and then the slot table is not asked for;
\* and when the slot table could not be fetched, is empty, or has no range
\* that holds the slot.
C14_EmptyDescriptor ==
    last.op = "get_node_for_key" =>
        /\ ~last.raised
        /\ last.calls = <<>> \/ last.calls[1].err =>
              /\ last.result = NoNode
              /\ \A i \in 1..Len(last.calls) : last.calls[i].cmd /= "cluster_slots"
        /\ Len(last.calls) = 2 /\ last.calls[2].err => last.result = NoNode
        /\ slots = <<>> \/ Holding(SlotOf(last.keys[1])) = {} => last.result = NoNode
        /\ last.calls /= <<>> /\ ~last.calls[1].err =>
              /\ Len(last.calls) = 2
              /\ last.calls[2].cmd = "cluster_slots"

\* The slot computation failed: no slot table was asked for, and the
\* descriptor is empty.
C14_Witness ==
    /\ last.op = "get_node_for_key"
    /\ Len(last.calls) = 1
    /\ last.calls[1].cmd = "keyslot"
    /\ last.calls[1].err
    /\ last.result = NoNode
    /\ Holding(SlotOf(last.keys[1])) /= {}

\* C15: get_key_slot returns -1 exactly when the slot computation failed
\* (no handle could be made, or the call raised); a call that did not fail
\* returns the store's slot of the key, which is not negative.
C15_SlotSentinel ==
    last.op = "get_key_slot" =>
        /\ last.result = PyInt(-1) <=> (last.calls = <<>> \/ last.calls[1].err)
        /\ Answered(last, "get_key_slot") =>
              /\ last.result = last.calls[1].reply
              /\ last.result = PyInt(SlotOf(last.keys[1]))
              /\ last.result.n >= 0
        /\ ~last.raised

\* get_key_slot was answered and returned the slot of k2.
C15_Witness ==
    /\ Answered(last, "get_key_slot")
    /\ last.keys = <<"k2">>
    /\ last.result = PyInt(SlotOf("k2"))

Owner(s) ==
    IF Holding(s) = {} THEN NoNode
    ELSE LET i == CHOOSE i \in Holding(s) : \A j \in Holding(s) : i <= j
         IN  IF slots[i].nodes = <<>> THEN NoNode ELSE Node(slots[i].nodes[1])

\* C17: every get_cluster_slots and get_cluster_nodes that has a handle
\* issues its query and returns what the store holds now; every
\* get_node_for_key that has the slot asks for the slot table and returns
\* the owner of the slot in the table the store holds now, also right
\* after the table changed.
C17_NeverCached ==
    /\ last.op \in {"get_cluster_slots", "get_cluster_nodes"} /\ ~last.cfailed =>
          /\ Len(last.calls) = 1
          /\ last.calls[1].cmd = (IF last.op = "get_cluster_slots" THEN "cluster_slots"
                                  ELSE "cluster_nodes")
    /\ Answered(last, "get_cluster_slots") => last.result = StoreClusterSlots(W).reply
    /\ Answered(last, "get_cluster_nodes") => last.result = StoreClusterNodes(W).reply
    /\ Answered(last, "get_node_for_key") =>
          /\ Len(last.calls) = 2
          /\ last.calls[2].cmd = "cluster_slots"
    /\ LookedUp =>
          /\ last.calls[2].reply = StoreClusterSlots(W).reply
          /\ last.result = Owner(SlotOf(last.keys[1]))

\* The table is no longer the one the client started with, and the lookup
\* of k1 returned the owner in the new table, which is not the old owner.
C17_Witness ==
    /\ LookedUp
    /\ last.keys = <<"k1">>
    /\ slots /= SlotTable1
    /\ Len(slots) = 1
    /\ slots[1].nodes /= <<>>
    /\ last.result = Node(slots[1].nodes[1])
    /\ last.result /= Node(SlotTable1[1].nodes[1])
    /\ constructed = 1

(***************************************************************************)
(* Properties: delete and exists on several keys                           *)
(***************************************************************************)
\* The number of indices of the key list whose key the store holds.
NamedPresent(keys) == Cardinality({i \in 1..Len(keys) : db[keys[i]].type /= "none"})

\* What C18 asks of a delete or exists of the cluster client that has a
\* handle: one store call with all the keys, in the order given; its reply
\* is the result; delete removes the keys named and reports how many of
\* them there were, exists changes nothing and reports how many of the
\* keys named are present.
BatchStep ==
    /\ Len(last'.calls) = 1
    /\ last'.calls[1].cmd = last'.op
    /\ last'.calls[1].keys = last'.keys
    /\ ~last'.raised
    /\ ~last'.calls[1].err => last'.result = last'.calls[1].reply
    /\ Answered(last', "delete") =>
          /\ last'.result = PyInt(Cardinality({k \in Range(last'.keys) :
                                                 db[k].type /= "none"}))
          /\ \A k \in Keys : db'[k] = IF k \in Range(last'.keys) THEN NoEntry ELSE db[k]
    /\ Answered(last', "exists") =>
          /\ last'.result = PyInt(NamedPresent(last'.keys))
          /\ db' = db

\* C18: every delete and exists of the cluster client is one store call
\* that carries all the keys and returns the store's count unchanged, and
\* no key that delete removed is there afterwards.
C18_BatchCount ==
    [][kind = "cluster" /\ last'.op \in {"delete", "exists"} /\ ~last'.cfailed
          => BatchStep]_vars

\* A delete of two keys removed both and returned 2.
C18_Witness ==
    /\ kind = "cluster"
    /\ Answered(last, "delete")
    /\ last.keys = <<"k1", "k2">>
    /\ last.calls[1].keys = <<"k1", "k2">>
    /\ last.result = PyInt(2)
    /\ \A k \in Keys : db[k].type = "none"

(***************************************************************************)
(* Properties: hashes                                                      *)
(***************************************************************************)
\* The fields of a hash of the store, and the fields of a mapping given to
\* set_hash with the text of each.
FieldsOf(hash) == {hash[2 * i - 1] : i \in 1..(Len(hash) \div 2)}

Given(mapping) ==
    {<<mapping.kids[2 * i - 1].s, mapping.kids[2 * i].s>> :
        i \in 1..(Len(mapping.kids) \div 2)}

\* The hash new holds what the hash old held on every field but those in
\* gone, and nothing else on them.
KeepsOthers(old, new, gone) ==
    \A f \in (FieldsOf(old) \cup FieldsOf(new)) \ gone :
       /\ f \in FieldsOf(old) /\ f \in FieldsOf(new)
       /\ HashGet(new, f) = HashGet(old, f)

\* A set_hash that returned true: the hash holds the value given for every
\* field given, and what it held on the others.
SetHashStep(old, new) ==
    /\ \A p \in Given(last'.args[1]) : p[1] \in FieldsOf(new) /\ HashGet(new, p[1]) = p[2]
    /\ KeepsOthers(old, new, {p[1] : p \in Given(last'.args[1])})

\* A delete_hash that was answered: it returns how many of the fields
\* named the hash held, and the hash holds the others as before.
DeleteHashStep(old, new, named) ==
    /\ last'.result = PyInt(Cardinality(named \cap FieldsOf(old)))
    /\ FieldsOf(new) = FieldsOf(old) \ named
    /\ KeepsOthers(old, new, named)

\* The reads that were answered: get_hash_field returns the value the hash
\* holds on the field (None without it), get_hash all fields with their
\* values, the empty mapping for no hash; and a get_hash_field that
\* follows a set_hash that returned true returns the value given.
ReadHashStep(old) ==
    /\ Answered(last', "get_hash_field") =>
          /\ last'.result = IF last'.args[1].s \in FieldsOf(old)
                            THEN PyStr(HashGet(old, last'.args[1].s))
                            ELSE PyNone
          /\ last.op = "set_hash" /\ last.result = PyTrue /\ last.keys = last'.keys =>
                \A p \in Given(last.args[1]) :
                   p[1] = last'.args[1].s => last'.result = PyStr(p[2])
    /\ Answered(last', "get_hash") =>
          /\ last'.result.t = "dict"
          /\ Len(last'.result.kids) = Len(old)
          /\ \A i \in 1..Len(old) : last'.result.kids[i] = PyStr(old[i])
    /\ last'.op \in {"get_hash_field", "get_hash"} => db' = db

HashStep ==
    /\ last'.op = "set_hash" /\ last'.result = PyTrue =>
          SetHashStep(db[last'.keys[1]].hash, db'[last'.keys[1]].hash)
    /\ last'.op = "set_hash" /\ last'.result /= PyTrue => db' = db
    /\ Answered(last', "delete_hash") =>
          DeleteHashStep(db[last'.keys[1]].hash, db'[last'.keys[1]].hash,
                         {last'.args[i].s : i \in 1..Len(last'.args)})
    /\ last'.op \in {"get_hash_field", "get_hash"} => ReadHashStep(db[last'.keys[1]].hash)

\* C19: set_hash writes the fields given and leaves the others;
\* get_hash_field returns the latest value of a field; delete_hash returns
\* how many of the named fields were there and removes them; get_hash
\* returns exactly the fields the hash holds.
C19_HashOperations == [][kind = "cluster" => HashStep]_vars

\* A delete_hash removed one of the two fields of the hash and returned 1;
\* the other field is left with its value.
C19_Witness ==
    /\ kind = "cluster"
    /\ Answered(last, "delete_hash")
    /\ last.args = <<PyStr(<<"g">>)>>
    /\ last.result = PyInt(1)
    /\ db["k1"].type = "hash"
    /\ db["k1"].hash = <<<<"f">>, TextB>>

(***************************************************************************)
(* Properties: lists                                                       *)
(***************************************************************************)
\* The text the store holds for a value given to push_list, seen from the
\* element get_list returns: the text itself, or the serialization of the
\* list or mapping returned.
ElementOf(e, text) == e = PyStr(text) \/ (IsDictOrList(e) /\ json_dumps(e).text = text)

\* The position, from the head and from 0, that an index of get_list
\* names in a list of n elements.
Position(i, n) == IF i < 0 THEN n + i ELSE i

\* The positions of a list of n elements from start to end, both included.
Between(start, end, n) ==
    {j \in 0..(n - 1) : Position(start, n) <= j /\ j <= Position(end, n)}

\* A push_list that was answered: the list is the old one followed by the
\* values in the order given, and the result is its length.
PushListStep(old, new) ==
    /\ Len(new) = Len(old) + Len(last'.args)
    /\ SubSeq(new, 1, Len(old)) = old
    /\ \A i \in 1..Len(last'.args) : ElementOf(last'.args[i], new[Len(old) + i])
    /\ last'.result = PyInt(Len(new))

\* A get_list that was answered: the elements at the positions from start
\* to end, in the order of the list (the element that has i - 1 of the
\* positions before it is the i-th returned); all of them for the default
\* range.
GetListStep(items, at) ==
    /\ last'.result.t = "list"
    /\ Len(last'.result.kids) = Cardinality(at)
    /\ \A j \in at :
          ElementOf(last'.result.kids[Cardinality({x \in at : x < j}) + 1], items[j + 1])
    /\ last'.n = 0 /\ last'.m = -1 => Len(last'.result.kids) = Len(items)
    /\ db' = db

ListStep ==
    /\ Answered(last', "push_list") =>
          PushListStep(db[last'.keys[1]].list, db'[last'.keys[1]].list)
    /\ last'.op = "push_list" /\ ~Answered(last', "push_list") => db' = db
    /\ Answered(last', "get_list") =>
          GetListStep(db[last'.keys[1]].list,
                      Between(last'.n, last'.m, Len(db[last'.keys[1]].list)))

\* C20: push_list puts its values at the tail of the list in the order
\* given and returns the new length; get_list returns the elements from
\* start to end, both included, a negative index counting from the tail,
\* and the whole list by default.
C20_ListOperations == [][ListStep]_vars

\* Of a list of three elements, get_list(-2, -1) returned the last two,
\* the second of them the list that was pushed.
C20_Witness ==
    /\ Answered(last, "get_list")
    /\ last.n = -2 /\ last.m = -1
    /\ Len(db["k1"].list) = 3
    /\ last.result = PyList(<<PyStr(TextB), PyList(<<PyStr(TextA)>>)>>)

(***************************************************************************)
(* Properties: set with an expiry, call by call                            *)
(***************************************************************************)
\* The steps of a set with an expiry: the write leaves the key with the
\* text and no expiry, and the caller before its expire call; an expiry
\* comes to a key only by the expire call of a caller that has done its
\* write; and once the process has stopped, a key that is held without an
\* expiry stays as it is.
TwoCallsStep ==
    /\ \A c \in Callers :
          pc[c] = "idle" /\ pc'[c] = "written" =>
             \E k \in Keys : db'[k].type = "string" /\ ttl'[k] = 0
    /\ \A k \in Keys :
          ttl'[k] > ttl[k] => \E c \in Callers : pc[c] = "written" /\ pc'[c] = "idle"
    /\ ~Running =>
          /\ pc' = pc
          /\ \A k \in Keys :
                db[k].type /= "none" /\ ttl[k] = 0 => db'[k] = db[k] /\ ttl'[k] = 0

\* C21: the write of a set with an expiry comes strictly before its expire
\* call and the two are not one step: after the write the key holds the
\* text with no expiry, which a reader then sees, and when the process
\* stops there the key stays without an expiry.
C21_TwoCalls == [][TwoCallsStep]_vars

\* A get returned the text while the caller that wrote it had not yet
\* issued its expire call, and the key has no expiry.
C21_Witness ==
    /\ pc["c1"] = "written"
    /\ pc["c2"] = "idle"
    /\ Answered(last, "get")
    /\ last.result = PyStr(TextB)
    /\ db["k1"] = StrEntry(TextB)
    /\ ttl["k1"] = 0

(***************************************************************************)
(* Properties: the table names of the relational client                    *)
(***************************************************************************)
\* The text is made of letters, digits and underscores.
WordName(text) ==
    /\ text /= <<>>
    /\ \A i \in 1..Len(text) : text[i] = "_" \/ isalnum(<<text[i]>>)

\* C22: fetch_all, insert, update and delete on a table whose name is made
\* of letters, digits and underscores are not refused: the query is
\* executed once, and its result is returned when the database answers.
C22_UnderscoreAccepted ==
    /\ last.op \in {"fetch_all", "insert", "update", "delete"}
    /\ last.keys = <<>> /\ Len(last.args) = 1
    /\ WordName(last.args[1].s)
    => /\ Len(last.calls) = 1
       /\ last.calls[1].args = <<last.args[1].s>>
       /\ ~last.calls[1].err => ~last.raised /\ last.result = last.calls[1].reply

(***************************************************************************)
(* Properties: a set whose expire call fails                               *)
(***************************************************************************)
\* The set of the record did its write, and its expire call raised.
ExpireFailed(l) ==
    /\ l.op = "set"
    /\ Wrote(l)
    /\ Len(l.calls) = 2
    /\ l.calls[2].cmd = "expire"
    /\ l.calls[2].err

\* C23: a set of either client whose write was done and whose expire call
\* then failed returns false, and the key holds the new text with no
\* expiry.
C23_FalseAfterWrite ==
    [][ExpireFailed(last') =>
          /\ last'.result = PyFalse
          /\ db'[last'.keys[1]] = StrEntry(last'.calls[1].args[1])
          /\ ttl'[last'.keys[1]] = 0]_vars

\* The single-node client's set returned false; the key holds the text
\* given, without an expiry.
C23_Witness ==
    /\ kind = "single"
    /\ ExpireFailed(last)
    /\ last.result = PyFalse
    /\ last.args = <<PyStr(TextB)>>
    /\ db["k1"] = StrEntry(TextB)
    /\ ttl["k1"] = 0
    /\ constructed = 1

(***************************************************************************)
(* Properties: the instance after close                                    *)
(***************************************************************************)
\* C24: the instance is usable after close: the first operation after it,
\* when it can construct a handle, constructs a new one and puts its calls
\* through it, and no call of any operation goes through a handle whose
\* shutdown was requested.
C24_UsableAfterClose ==
    [][/\ last'.op \notin {"close", "none"} =>
             \A i \in 1..Len(last'.calls) : last'.calls[i].h \notin shutdown
       /\ last.op = "close" /\ last'.op \notin {"close", "none"} /\ ~last'.cfailed =>
             /\ constructed' = constructed + 1
             /\ _client' = constructed'
             /\ _client' \notin shutdown'
             /\ last'.calls /= <<>>
             /\ AllThrough(last', constructed')]_vars

\* After the close of the first handle an exists went through a second
\* one, which the instance now holds.
C24_Witness ==
    /\ last.op = "exists"
    /\ last.calls /= <<>>
    /\ AllThrough(last, 2)
    /\ shutdown = {1}
    /\ _client = 2
    /\ constructed = 2

(***************************************************************************)
(* Properties: get of a present key                                        *)
(***************************************************************************)
\* C25: when exists is true of the key and the store call of a get did not
\* fail, the get returns a value that is not None, whatever text the key
\* holds.
C25_PresentNotNone ==
    /\ Answered(last, "get")
    /\ Truthy(StoreExists(W, <<last.keys[1]>>).reply)
    => last.result /= PyNone

(***************************************************************************)
(* Properties: the first range that holds the slot                         *)
(***************************************************************************)
\* C26: get_node_for_key stops at the first range of the table, in the
\* order the store gave it, that holds the slot of the key: it returns the
\* first node of that range, or the empty descriptor when that range has
\* no nodes, whatever later ranges hold the slot too.
C26_FirstMatch ==
    LookedUp =>
        \A i \in Holding(SlotOf(last.keys[1])) :
           (\A j \in Holding(SlotOf(last.keys[1])) : i <= j) =>
               last.result = (IF slots[i].nodes = <<>> THEN NoNode
                              ELSE Node(slots[i].nodes[1]))

\* Two ranges hold the slot of k1; the first has no nodes, the second has,
\* and the lookup returned the empty descriptor.
C26_Witness ==
    /\ LookedUp
    /\ last.keys = <<"k1">>
    /\ Holding(SlotOf("k1")) = {1, 2}
    /\ slots[1].nodes = <<>>
    /\ slots[2].nodes /= <<>>
    /\ last.result = NoNode

=============================================================================
